---- MODULE Spec2Model ----
(***************************************************************************)
(* Model of the RETS client (consulthys/rets-client): the Client facade    *)
(* (index.js, src/unnamed/part_003), the authentication module             *)
(* (src/lib/auth.js), the metadata module (src/unnamed/part_002), the      *)
(* object module (src/lib/object.js) and the two variants of the update    *)
(* module found in the repository (src/unnamed/part_000, the six-argument  *)
(* variant with per-call delegate headers, and src/unnamed/part_001, the   *)
(* five-argument variant that writes to updateSession.headers).            *)
(*                                                                         *)
(* JavaScript values are records with a field t (their type), so that any  *)
(* two of them can be compared.  Strings that are split on a delimiter are *)
(* sequences of one-character strings.                                     *)
(***************************************************************************)
EXTENDS Integers, Sequences, FiniteSets, TLC

VARIABLES
    impl,       \* which variant is lib/update.js: "part_000" or "part_001"
    client,     \* the Client object: the fields configure() sets
    sess,       \* the module-scoped session variables of lib/*.js
    calls,      \* the operations invoked, with what each has produced so far
    ncalls      \* number of operations invoked so far

vars == <<impl, client, sess, calls, ncalls>>

(***************************************************************************)
(* Bounds of the model.                                                    *)
(***************************************************************************)
MaxCalls == 2       \* operations invoked one after the other in a run
MaxUpdates == 2     \* Update calls that may be in flight together
MaxLines == 2       \* ERRORDATA / WARNINGDATA lines in a block
MaxCols == 2        \* columns of a compact block
MaxRows == 2        \* DATA lines of a compact block
MaxNodes == 2       \* nodes handed to parseCompactMetadata together

(***************************************************************************)
(* JavaScript values.                                                      *)
(***************************************************************************)
UNDEF == [t |-> "undefined"]
FN == [t |-> "function"]
Str(s) == [t |-> "string", v |-> s]
Obj(f) == [t |-> "object", p |-> f]
EmptyObj == [t |-> "object", p |-> <<>>]

\* !x is false
Truthy(x) == /\ x.t # "undefined"
             /\ ~(x.t = "string" /\ x.v = "")

\* x.k for x other than undefined/null (on those the access throws)
Get(x, k) == IF x.t = "object" /\ k \in DOMAIN x.p THEN Str(x.p[k]) ELSE UNDEF

\* the text an array join() or a string concatenation makes of x
Text(x) == IF x.t = "string" THEN x.v ELSE ""

\* a || b
OrElse(a, b) == IF Truthy(a) THEN a ELSE b

Merge(f, g) == [k \in (DOMAIN f) \cup (DOMAIN g) |-> IF k \in DOMAIN g THEN g[k] ELSE f[k]]

RECURSIVE JoinWith(_, _)
JoinWith(parts, sep) ==
    IF parts = <<>> THEN ""
    ELSE IF Len(parts) = 1 THEN Head(parts)
    ELSE Head(parts) \o sep \o JoinWith(Tail(parts), sep)

\* crypto.createHash('md5').update(s).digest('hex'): an injective function of s
Md5Hex(s) == "md5(" \o s \o ")"

(***************************************************************************)
(* Header sets: functions from header name to a value [scheme, v]; the     *)
(* text of the header is scheme, a blank and v when scheme is not empty.   *)
(***************************************************************************)
Plain(s) == [scheme |-> "", v |-> s]
Digest(hex) == [scheme |-> "Digest", v |-> hex]
NoHeaders == <<>>
HasHeader(h, k) == k \in DOMAIN h

\* value.split(/\s/)[1]
SecondWord(hv) == IF hv.scheme = "" THEN UNDEF ELSE Str(hv.v)

(***************************************************************************)
(* auth.addAuthHeaders(settings, headers): the headers hash after the call *)
(***************************************************************************)
\* addAuthHeaders without the test of settings.userAgentPassword (line 158)
addAuthHeaders_NoPassword(settings, headers) ==
    IF ~Truthy(settings) THEN headers
    ELSE IF ~Truthy(Get(settings, "userAgent")) THEN headers
    ELSE Merge(Merge(headers, "User-Agent" :> Plain(Get(settings, "userAgent").v)),
               "RETS-UA-Authorization" :>
                   Digest(Md5Hex(JoinWith(<<Text(Get(settings, "userAgent")),
                                            Text(Get(settings, "userAgentPassword"))>>, ":"))))

addAuthHeaders(settings, headers) ==
    IF ~Truthy(settings) THEN headers
    ELSE IF ~Truthy(Get(settings, "userAgent")) THEN headers
    ELSE LET h1 == Merge(headers, "User-Agent" :> Plain(Get(settings, "userAgent").v))
         IN  IF ~Truthy(Get(settings, "userAgentPassword")) THEN h1
             ELSE LET a1 == Md5Hex(JoinWith(<<Text(Get(settings, "userAgent")),
                                              Text(Get(settings, "userAgentPassword"))>>, ":"))
                      version == IF Truthy(Get(settings, "version"))
                                 THEN Text(Get(settings, "version"))
                                 ELSE IF HasHeader(h1, "RETS-Version") THEN h1["RETS-Version"].v
                                 ELSE ""
                      retsUaAuth == Md5Hex(JoinWith(<<a1, "", Text(Get(settings, "sessionId")),
                                                      version>>, ":"))
                  IN  Merge(h1, "RETS-UA-Authorization" :> Digest(retsUaAuth))

\* the headers hash auth.login builds for the session
LoginHeaders(settings) ==
    addAuthHeaders(settings,
        [k \in {"User-Agent", "RETS-Version"} |->
            IF k = "User-Agent" THEN Plain("Node-Rets/1.0")
            ELSE Plain(IF Truthy(Get(settings, "version"))
                       THEN Text(Get(settings, "version")) ELSE "RETS/1.7.2")])

(***************************************************************************)
(* Sessions: request templates made by request.defaults.  NoSession is the *)
(* null/undefined session of a module constructed before login.            *)
(***************************************************************************)
NoSession == [t |-> "undefined"]
Session(uri, headers) == [t |-> "session", uri |-> uri, headers |-> headers]

\* the header set of a session, none when there is no session
HeadersOf(session) == IF session.t = "session" THEN session.headers ELSE <<>>

NoReq == [t |-> "none"]
\* session(options, ...): the request that goes out, the options' headers
\* laid over the session's
Issue(session, qs, headers) ==
    [t |-> "request", uri |-> session.uri, qs |-> qs,
     headers |-> Merge(session.headers, headers)]

(***************************************************************************)
(* What a synchronous piece of code has done when it returns: the          *)
(* invocations it made of the callback it was given, whether an exception  *)
(* escaped, the request it issued, and the session headers it left.        *)
(***************************************************************************)
NoErr == "null"
Invocation(err, data) == [err |-> err, data |-> data]
Effect(thrown, cbs, req, headers) ==
    [thrown |-> thrown, cbs |-> cbs, req |-> req, headers |-> headers]

ErrParamsUpdate == "All params are required: resourceType, classType, fields"
ErrNoLogin == "System data not set; invoke login first."

\* if (callback) callback(err, data)
CallIf(hasCallback, err, data) ==
    IF hasCallback THEN <<Invocation(err, data)>> ELSE <<>>

\* Object.keys(fields).map(field=value): the pairs of the Record parameter
RecordData(fields) ==
    IF fields.t = "object" THEN {<<k, fields.p[k]>> : k \in DOMAIN fields.p} ELSE {}

HasDelegate(authParams) ==
    /\ Truthy(authParams)
    /\ Truthy(Get(authParams, "delegateId"))
    /\ Truthy(Get(authParams, "delegateHash"))
    /\ Truthy(Get(authParams, "delegatePassword"))

DelegateAuth(retsUaAuth, authParams) ==
    Digest(Md5Hex(JoinWith(<<Text(retsUaAuth), Text(Get(authParams, "delegatePassword")),
                             Text(Get(authParams, "delegateHash")),
                             Text(Get(authParams, "delegateId"))>>, ":")))

(***************************************************************************)
(* part_000, update(): the per-call delegateHeaders hash.                  *)
(***************************************************************************)
delegateHeaders_000(authParams) ==
    IF ~HasDelegate(authParams) THEN NoHeaders
    ELSE LET h1 == addAuthHeaders(authParams, NoHeaders)
             h2 == Merge(h1, "X-Delegate-ID" :> Plain(Get(authParams, "delegateId").v))
         IN  IF HasHeader(h2, "RETS-UA-Authorization")
             THEN Merge(h2, "X-Delegate-Authorization" :>
                            DelegateAuth(SecondWord(h2["RETS-UA-Authorization"]), authParams))
             ELSE h2

\* part_000, update(): the synchronous part, up to the request
update_000(resourceType, classType, updateType, fields, authParams, hasCallback, session) ==
    IF authParams.t = "undefined"
    THEN \* authParams.delegateId in the logger.debug call throws a TypeError
         Effect(TRUE, <<>>, NoReq, HeadersOf(session))
    ELSE IF ~Truthy(resourceType) \/ ~Truthy(classType) \/ ~Truthy(fields)
    THEN Effect(FALSE, CallIf(hasCallback, ErrParamsUpdate, UNDEF), NoReq, HeadersOf(session))
    ELSE IF session.t = "undefined"
    THEN Effect(FALSE, CallIf(hasCallback, ErrNoLogin, UNDEF), NoReq, HeadersOf(session))
    ELSE Effect(FALSE, <<>>,
                Issue(session,
                      [Resource |-> resourceType, ClassName |-> classType,
                       Type |-> updateType, Record |-> RecordData(fields)],
                      delegateHeaders_000(authParams)),
                session.headers)

(***************************************************************************)
(* part_001, update(): updateSession.headers after the delegate block.     *)
(* throws is TRUE when the block ends in an exception: the module never    *)
(* requires crypto, so computing the delegate digest is a ReferenceError.  *)
(***************************************************************************)
\* line 38 written as headers[k] = headers[k] || id: a value already in the
\* shared hash is kept
SetDelegateId_Keep(headers, authParams) ==
    IF HasHeader(headers, "X-Delegate-ID") THEN headers
    ELSE Merge(headers, "X-Delegate-ID" :> Plain(Get(authParams, "delegateId").v))

\* line 38: updateSession.headers['X-Delegate-ID'] = authParams.delegateId
SetDelegateId(headers, authParams) ==
    Merge(headers, "X-Delegate-ID" :> Plain(Get(authParams, "delegateId").v))

sessionHeaders_001(headers, authParams) ==
    IF ~HasDelegate(authParams) THEN [headers |-> headers, throws |-> FALSE]
    ELSE [headers |-> SetDelegateId(headers, authParams),
          throws |-> HasHeader(headers, "rets-ua-authorization")]

\* part_001, update(): the synchronous part, up to the request
update_001(resourceType, classType, fields, authParams, hasCallback, session) ==
    IF ~Truthy(resourceType) \/ ~Truthy(classType) \/ ~Truthy(fields)
    THEN Effect(FALSE, CallIf(hasCallback, ErrParamsUpdate, UNDEF), NoReq, HeadersOf(session))
    ELSE IF session.t = "undefined"
    THEN Effect(FALSE, CallIf(hasCallback, ErrNoLogin, UNDEF), NoReq, HeadersOf(session))
    ELSE LET after == sessionHeaders_001(session.headers, authParams)
         IN  IF after.throws
             THEN Effect(TRUE, <<>>, NoReq, after.headers)
             ELSE Effect(FALSE, <<>>,
                         Issue(Session(session.uri, after.headers),
                               [Resource |-> resourceType, ClassName |-> classType,
                                Type |-> Str("Change"), Record |-> RecordData(fields)],
                               NoHeaders),
                         after.headers)

(***************************************************************************)
(* The transport's answer to a request made with a callback:               *)
(* callback(error, response, data).  result is what xml2js's parseString   *)
(* makes of data.                                                          *)
(***************************************************************************)
NoResp == [t |-> "none"]
Outcome(error, response, status, result) ==
    [t |-> "outcome", error |-> error, response |-> response, status |-> status,
     result |-> result]

ErrTransport == "transport error"
ErrNoResponseUpdate == "RETS method update returned no response body"
ErrStatusUpdate == "RETS method update returned unexpected status code"
ErrXmlParse == "Failed to parse RETS XML"
ErrReplyCode == "RETS Server replied with an error code"

(***************************************************************************)
(* xml2js trees of an Update reply.  ResultUndefined is what parseString   *)
(* hands over when the body is no XML; NotRets is a document whose root is *)
(* not RETS.  A RETS node carries its ReplyCode and ReplyText attributes,  *)
(* at most one transaction-id child (tidTag "none" when absent), given as  *)
(* an element with a value attribute (tidForm "attr") or as text (tidForm  *)
(* "text", which xml2js renders as a plain string), the value attribute of *)
(* its DELIMITER child ("" when there is no such child), and its           *)
(* ERRORBLOCK and WARNINGBLOCK children with their lines.                  *)
(***************************************************************************)
ResultUndefined == [t |-> "undefined"]
NotRets == [t |-> "result", RETS |-> UNDEF]
Block(present, lines) == [present |-> present, lines |-> lines]
NoBlock == [present |-> FALSE, lines |-> <<>>]
RetsNode(code, text, tidTag, tidForm, tidValue, delimiter, errorblock, warningblock) ==
    [t |-> "node", ReplyCode |-> code, ReplyText |-> text, tidTag |-> tidTag,
     tidForm |-> tidForm, tidValue |-> tidValue, DELIMITER |-> delimiter,
     ERRORBLOCK |-> errorblock, WARNINGBLOCK |-> warningblock]
Result(node) == [t |-> "result", RETS |-> node]

\* updateXml[name]: the list of children with that tag, undefined when none
Element(value) == [t |-> "element", value |-> value]
Children(updateXml, name) ==
    IF updateXml.tidTag = name
    THEN [t |-> "array",
          items |-> <<IF updateXml.tidForm = "attr" THEN Element(updateXml.tidValue)
                      ELSE Str(updateXml.tidValue)>>]
    ELSE UNDEF

TAB == "\t"

\* utils.hex2a: the character a two-digit hexadecimal code stands for
hex2a(hex) ==
    CASE hex = "09" -> TAB
      [] hex = "7C" -> "|"
      [] hex = "2C" -> ","
      [] OTHER -> ""

\* utils.xmlParseCheck(xml, callback): the invocations it makes; it returns
\* false exactly when it makes one or xml is missing
xmlParseCheck(xml, hasCallback) ==
    IF Truthy(xml) THEN <<>> ELSE CallIf(hasCallback, ErrXmlParse, UNDEF)

\* utils.replyCodeCheck(result, callback): the same for the reply code
replyCodeCheck(result, hasCallback) ==
    IF result.RETS.ReplyCode = 0 THEN <<>> ELSE CallIf(hasCallback, ErrReplyCode, UNDEF)

(***************************************************************************)
(* String.prototype.split on a one-character delimiter, the string given   *)
(* as the sequence of its characters: the sequence of the pieces.          *)
(***************************************************************************)
RECURSIVE SplitFrom(_, _, _)
SplitFrom(line, delimiter, piece) ==
    IF line = <<>> THEN <<piece>>
    ELSE IF Head(line) = delimiter
         THEN <<piece>> \o SplitFrom(Tail(line), delimiter, "")
         ELSE SplitFrom(Tail(line), delimiter, piece \o Head(line))

Split(line, delimiter) == SplitFrom(line, delimiter, "")

\* array[i], i counted from 0
At(pieces, i) == IF i + 1 <= Len(pieces) THEN Str(pieces[i + 1]) ELSE UNDEF

Arr(items) == [t |-> "array", items |-> items]

(***************************************************************************)
(* parseErrorWarningBlock(updateXml, delimiter), the same in both          *)
(* variants.  throws: a block without lines is the empty string in the     *)
(* xml2js tree, and reading ERRORDATA.length of it is a TypeError.         *)
(***************************************************************************)
\* the entry of an error line with the piece at position 0 kept as the field
ErrorEntry_FromZero(pieces) ==
    [field |-> At(pieces, 0), num |-> At(pieces, 1), offset |-> At(pieces, 2),
     text |-> At(pieces, 3)]

\* lines 140-146: the entry made of the pieces of an ERRORDATA line
ErrorEntry(pieces) ==
    [field |-> At(pieces, 1), num |-> At(pieces, 2), offset |-> At(pieces, 3),
     text |-> At(pieces, 4)]

WarningEntry(pieces) ==
    [field |-> At(pieces, 1), num |-> At(pieces, 2), offset |-> At(pieces, 3),
     text |-> At(pieces, 4), responseRequired |-> At(pieces, 5)]

parseErrorWarningBlock(updateXml, delimiter) ==
    LET d == IF delimiter = "" THEN TAB ELSE delimiter
        eb == updateXml.ERRORBLOCK
        wb == updateXml.WARNINGBLOCK
    IN  [throws |-> \/ (eb.present /\ eb.lines = <<>>)
                    \/ (wb.present /\ wb.lines = <<>>),
         errors |-> IF eb.present
                    THEN [i \in 1..Len(eb.lines) |-> ErrorEntry(Split(eb.lines[i], d))]
                    ELSE <<>>,
         warnings |-> IF wb.present
                      THEN [i \in 1..Len(wb.lines) |-> WarningEntry(Split(wb.lines[i], d))]
                      ELSE <<>>]

(***************************************************************************)
(* The updateResults object handed to the callback; a property that was    *)
(* never assigned is undefined.                                            *)
(***************************************************************************)
UpdateResults(code, text, transactionId, errors, warnings) ==
    [t |-> "updateResults", replyCode |-> code, replyText |-> text,
     transactionId |-> transactionId, errors |-> errors, warnings |-> warnings]

Threw == [thrown |-> TRUE, cbs |-> <<>>]
Made(cbs) == [thrown |-> FALSE, cbs |-> cbs]

(***************************************************************************)
(* part_000 lines 105-107: the transaction id.                             *)
(*   var tag = updateXml['TRANSACTIONID'][0] || updateXml['TRANSACTION-ID'][0];*)
(*   if ('$' in tag) id = tag.$.value; else if (tag) id = tag[0];          *)
(* Indexing a missing child list throws, and so does `in` on a string.     *)
(***************************************************************************)
transactionIdTag(updateXml) ==
    LET first == Children(updateXml, "TRANSACTIONID")
        second == Children(updateXml, "TRANSACTION-ID")
    IN  IF first.t = "undefined" THEN [throws |-> TRUE, tag |-> UNDEF]
        ELSE IF Truthy(first.items[1]) THEN [throws |-> FALSE, tag |-> first.items[1]]
        ELSE IF second.t = "undefined" THEN [throws |-> TRUE, tag |-> UNDEF]
        ELSE [throws |-> FALSE, tag |-> second.items[1]]

transactionId_000(updateXml) ==
    LET got == transactionIdTag(updateXml)
    IN  IF got.throws THEN [throws |-> TRUE, value |-> UNDEF]
        ELSE IF got.tag.t # "element" THEN [throws |-> TRUE, value |-> UNDEF]
        ELSE [throws |-> FALSE, value |-> Str(got.tag.value)]

\* part_001 lines 98-100: the same, but line 99 reads tag[0].$.value, and
\* tag[0] of an element is undefined
transactionId_001(updateXml) ==
    LET got == transactionIdTag(updateXml)
    IN  IF got.throws THEN [throws |-> TRUE, value |-> UNDEF]
        ELSE IF got.tag.t # "element" THEN [throws |-> TRUE, value |-> UNDEF]
        ELSE [throws |-> TRUE, value |-> UNDEF]

ProtocolErrorText(updateXml) ==
    updateXml.ReplyText \o " (" \o ToString(updateXml.ReplyCode) \o ")"

\* part_000 lines 91-127: the parseString callback
decode_000(result, hasCallback) ==
    IF result.t = "undefined" THEN Threw
    ELSE LET updateXml == result.RETS
         IN  IF ~Truthy(updateXml) THEN Made(xmlParseCheck(updateXml, hasCallback))
             ELSE IF updateXml.ReplyCode = 0
             THEN LET tid == transactionId_000(updateXml)
                      reports == parseErrorWarningBlock(updateXml, hex2a(updateXml.DELIMITER))
                  IN  IF tid.throws \/ reports.throws THEN Threw
                      ELSE Made(CallIf(hasCallback, NoErr,
                                       UpdateResults(0, updateXml.ReplyText, tid.value,
                                                     Arr(reports.errors), Arr(reports.warnings))))
             ELSE Made(CallIf(hasCallback, ProtocolErrorText(updateXml),
                              UpdateResults(updateXml.ReplyCode, updateXml.ReplyText,
                                            UNDEF, UNDEF, UNDEF)))

\* metadata.parseCompactMetadata([updateXml], "Updates") at part_001 line 106:
\* require('./metadata.js') is the module's factory function, which has no
\* such property, so the call is a TypeError
updatedColumns_001(updateXml) == [throws |-> TRUE]

\* part_001 lines 88-117: the parseString callback
decode_001(result, hasCallback) ==
    IF result.t = "undefined" THEN Threw
    ELSE IF ~Truthy(result.RETS) THEN Threw   \* replyCodeCheck reads result.RETS.$
    ELSE IF result.RETS.ReplyCode # 0 THEN Made(replyCodeCheck(result, hasCallback))
    ELSE LET updateXml == result.RETS
             tid == transactionId_001(updateXml)
             reports == parseErrorWarningBlock(updateXml, hex2a(updateXml.DELIMITER))
         IN  IF tid.throws \/ updatedColumns_001(updateXml).throws \/ reports.throws
             THEN Threw
             ELSE Made(CallIf(hasCallback, NoErr,
                              UpdateResults(UNDEF, UNDEF, tid.value,
                                            Arr(reports.errors), Arr(reports.warnings))))

\* lines 65-89 of part_000, 59-83 of part_001: the request callback
onResponse_update(variant, out, hasCallback) ==
    IF out.error THEN Made(CallIf(hasCallback, ErrTransport, UNDEF))
    ELSE IF ~out.response THEN Made(CallIf(hasCallback, ErrNoResponseUpdate, UNDEF))
    ELSE IF out.status # 200 THEN Made(CallIf(hasCallback, ErrStatusUpdate, UNDEF))
    ELSE IF variant = "part_000" THEN decode_000(out.result, hasCallback)
    ELSE decode_001(out.result, hasCallback)

(***************************************************************************)
(* part_002, getMetadata(type, id, format, callback).                      *)
(***************************************************************************)
ErrParamsMetadata == "All params are required: type, id, format"
ErrStatusMetadata == "RETS method getMetadata returned unexpected status code"

getMetadata(type, id, format, hasCallback, session) ==
    IF ~Truthy(type) \/ ~Truthy(id) \/ ~Truthy(format)
    THEN Effect(FALSE, CallIf(hasCallback, ErrParamsMetadata, UNDEF), NoReq, HeadersOf(session))
    ELSE IF session.t = "undefined"
    THEN Effect(FALSE, CallIf(hasCallback, ErrNoLogin, UNDEF), NoReq, HeadersOf(session))
    ELSE Effect(FALSE, <<>>,
                Issue(session, [Type |-> type, Id |-> id, Format |-> format], NoHeaders),
                session.headers)

\* the body handed over as data: undefined when there was no response
Body(out) == IF out.response THEN [t |-> "body", of |-> out.result] ELSE UNDEF

\* part_002 lines 41-64: the request callback
onResponse_getMetadata(out, hasCallback) ==
    IF out.error /\ ~(out.response /\ out.status # 200)
    THEN Made(CallIf(hasCallback, ErrTransport, UNDEF))
    ELSE IF out.response /\ out.status # 200
    THEN Made(CallIf(hasCallback, ErrStatusMetadata, UNDEF))
    ELSE Made(CallIf(hasCallback, NoErr, Body(out)))

(***************************************************************************)
(* lib/object.js, getObject(resourceType, objectType, objectId, callback). *)
(* The request is a stream: it ends (after the response headers, if any    *)
(* came, gave the content type) or it fails.                               *)
(***************************************************************************)
ErrParamsObject == "All params are required: objectType, objectId, resourceType"

getObject(resourceType, objectType, objectId, hasCallback, session) ==
    IF ~Truthy(objectType) \/ ~Truthy(objectId) \/ ~Truthy(resourceType)
    THEN Effect(FALSE, CallIf(hasCallback, ErrParamsObject, UNDEF), NoReq, HeadersOf(session))
    ELSE IF session.t = "undefined"
    THEN Effect(FALSE, CallIf(hasCallback, ErrNoLogin, UNDEF), NoReq, HeadersOf(session))
    ELSE Effect(FALSE, <<>>,
                Issue(session,
                      [Type |-> objectType, Id |-> objectId, Resource |-> resourceType],
                      "Accept" :> Plain("image/*")),
                session.headers)

StreamOutcome(error, contentType, content) ==
    [t |-> "stream", error |-> error, contentType |-> contentType, content |-> content]
ObjectData(contentType, content) ==
    [t |-> "objectData", contentType |-> contentType, content |-> content]

\* lib/object.js lines 57-62: the end and error handlers call the callback
\* without testing it
onStream_getObject(out, hasCallback) ==
    IF ~hasCallback THEN Threw
    ELSE IF out.error THEN Made(<<Invocation(ErrTransport, UNDEF)>>)
    ELSE Made(<<Invocation(NoErr, ObjectData(out.contentType, out.content))>>)

(***************************************************************************)
(* lib/auth.js, logout(logoutRequest, callback).                           *)
(***************************************************************************)
ErrStatusLogout == "RETS method logout returned unexpected status code"

\* line 113: calling an undefined logoutRequest is a TypeError
logout(logoutRequest, hasCallback) ==
    IF logoutRequest.t = "undefined" THEN Effect(TRUE, <<>>, NoReq, <<>>)
    ELSE Effect(FALSE, <<>>, Issue(logoutRequest, <<>>, NoHeaders), logoutRequest.headers)

\* lines 113-142: response.statusCode is read whether or not there is a response
onResponse_logout(out, hasCallback) ==
    IF ~out.response THEN Threw
    ELSE IF out.status # 200 THEN Made(CallIf(hasCallback, ErrStatusLogout, UNDEF))
    ELSE IF out.error THEN Made(CallIf(hasCallback, ErrTransport, UNDEF))
    ELSE Made(CallIf(hasCallback, NoErr, [t |-> "boolean", v |-> TRUE]))

(***************************************************************************)
(* part_003, the Client's dispatch of a module's callback invocation to    *)
(* the caller's callback and to the Client's events.                       *)
(***************************************************************************)
Event(name, err, data) == [name |-> name, err |-> err, data |-> data]
Delivered(cbs, events) == [cbs |-> cbs, events |-> events]

\* processRetsResponse without the return that ends its error branch
processRetsResponse_NoReturn(error, data, eventSuccess, eventFailure, hasCb) ==
    IF error # NoErr
    THEN Delivered(CallIf(hasCb, error, UNDEF) \o CallIf(hasCb, error, data),
                   <<Event(eventFailure, error, UNDEF), Event(eventSuccess, NoErr, data)>>)
    ELSE Delivered(CallIf(hasCb, error, data), <<Event(eventSuccess, NoErr, data)>>)

\* processRetsResponse(client, error, data, eventSuccess, eventFailure, callback)
processRetsResponse(error, data, eventSuccess, eventFailure, hasCb) ==
    IF error # NoErr
    THEN Delivered(CallIf(hasCb, error, UNDEF), <<Event(eventFailure, error, UNDEF)>>)
    ELSE Delivered(CallIf(hasCb, error, data), <<Event(eventSuccess, NoErr, data)>>)

\* Client.prototype.getObject's own callback, lines 488-501: no return after
\* the failure branch
getObjectCallback(error, data, hasCb) ==
    IF error # NoErr
    THEN Delivered(CallIf(hasCb, error, UNDEF) \o CallIf(hasCb, error, data),
                   <<Event("object.failure", error, UNDEF),
                     Event("object.success", NoErr, data)>>)
    ELSE Delivered(CallIf(hasCb, error, data), <<Event("object.success", NoErr, data)>>)

\* the callback a Client method hands to its module, applied to one invocation
ClientCallback(op, inv, hasCb) ==
    CASE op = "getObject" -> getObjectCallback(inv.err, inv.data, hasCb)
      [] op = "getMetadata" ->
            processRetsResponse(inv.err, inv.data, "metadata.success", "metadata.failure", hasCb)
      [] op = "update" ->
            processRetsResponse(inv.err, inv.data, "update.success", "update.failure", hasCb)
      [] op = "logout" ->
            processRetsResponse(inv.err, UNDEF, "logout.success", "logout.failure", hasCb)
      [] op = "getPhotos" ->
            processRetsResponse(inv.err, inv.data, "photos.success", "photos.failure", hasCb)

RECURSIVE Dispatch(_, _, _)
Dispatch(op, invs, hasCb) ==
    IF invs = <<>> THEN Delivered(<<>>, <<>>)
    ELSE LET first == ClientCallback(op, Head(invs), hasCb)
             rest == Dispatch(op, Tail(invs), hasCb)
         IN  Delivered(first.cbs \o rest.cbs, first.events \o rest.events)

(***************************************************************************)
(* The record kept of an invoked operation.  level is "client" for a       *)
(* method of the Client and "module" for a function of a lib module called *)
(* directly; moduleCb tells whether the module function was handed a       *)
(* callback; cbs are the invocations of the caller's callback and events   *)
(* the events emitted on the Client, both in order; syncCbs counts the     *)
(* invocations made before the call returned; thrown tells whether an      *)
(* exception escaped; resp is the transport's answer once it has come.     *)
(***************************************************************************)
Started(op, level, args, hasCb, moduleCb, eff, delivered) ==
    [op |-> op, level |-> level, args |-> args, hasCb |-> hasCb, moduleCb |-> moduleCb,
     pc |-> IF eff.req.t = "request" /\ ~eff.thrown THEN "inflight" ELSE "done",
     thrown |-> eff.thrown, cbs |-> delivered.cbs, events |-> delivered.events,
     syncCbs |-> Len(delivered.cbs), req |-> eff.req, resp |-> NoResp]

\* what the caller sees of the invocations a module function made
Seen(op, level, invs, hasCb) ==
    IF level = "client" THEN Dispatch(op, invs, hasCb) ELSE Delivered(invs, <<>>)

Finished(call, out, r) ==
    LET d == Seen(call.op, call.level, r.cbs, call.hasCb)
    IN  [call EXCEPT !.pc = "done", !.resp = out, !.thrown = r.thrown,
                     !.cbs = @ \o d.cbs, !.events = @ \o d.events]

Idle == \A i \in DOMAIN calls : calls[i].pc # "inflight"

\* the module-scoped session variable after a call through it
WithHeaders(session, headers) ==
    IF session.t = "session" THEN Session(session.uri, headers) ELSE session

(***************************************************************************)
(* Inputs.                                                                 *)
(***************************************************************************)
Given == Str("x")
\* the required parameters: all given, or one of them missing
Triples == {<<Given, Given, Given>>, <<UNDEF, Given, Given>>,
            <<Given, UNDEF, Given>>, <<Given, Given, UNDEF>>}
Fields == Obj([ListPrice |-> "100"])
UpdateTriples == {<<Given, Given, Fields>>, <<UNDEF, Given, Fields>>,
                  <<Given, UNDEF, Fields>>, <<Given, Given, UNDEF>>}

AuthA == Obj([delegateId |-> "idA", delegateHash |-> "hashA", delegatePassword |-> "pwA",
              userAgent |-> "UA", userAgentPassword |-> "uapw"])
AuthB == Obj([delegateId |-> "idB", delegateHash |-> "hashB", delegatePassword |-> "pwB",
              userAgent |-> "UA", userAgentPassword |-> "uapw"])
AuthNoUA == Obj([delegateId |-> "idC", delegateHash |-> "hashC", delegatePassword |-> "pwC"])
AuthPartial == Obj([delegateId |-> "idD"])
Auths == {UNDEF, EmptyObj, AuthA, AuthB, AuthNoUA, AuthPartial}

LoginSettings == {EmptyObj, Obj([userAgent |-> "UA", userAgentPassword |-> "uapw"])}

ErrLineA == <<TAB, "L", "P", TAB, "2", "0", TAB, "0", TAB, "b", "a", "d", TAB>>
ErrLineB == <<TAB, "B", "R", TAB, "2", "1", TAB, "5", TAB, "n", "o", TAB>>
ErrLineP == <<"|", "L", "P", "|", "2", "0", "|", "0", "|", "b", "a", "d", "|">>
WarnLineA == <<TAB, "L", "P", TAB, "3", "0", TAB, "0", TAB, "o", "l", "d", TAB, "1", TAB>>
WarnLineP == <<"|", "B", "R", "|", "3", "1", "|", "2", "|", "w", "|", "0", "|">>

SeqsUpTo(S, n) == UNION {[1..k -> S] : k \in 0..n}
Blocks(pool) == {NoBlock} \cup {Block(TRUE, lines) : lines \in SeqsUpTo(pool, MaxLines)}

TidShapes == {<<"none", "attr">>} \cup
             ({"TRANSACTIONID", "TRANSACTION-ID"} \X {"attr", "text"})

\* every reply tree of the model
Replies ==
    {Result(RetsNode(code, IF code = 0 THEN "OK" ELSE "Bad", shape[1], shape[2], "T1",
                     delimiter, eb, wb)) :
        code \in {0, 20022}, shape \in TidShapes, delimiter \in {"", "09", "7C"},
        eb \in Blocks({ErrLineA, ErrLineB, ErrLineP}), wb \in Blocks({WarnLineA, WarnLineP})}

\* a few of them, for the runs that are about something else than decoding
SomeReplies ==
    {ResultUndefined, NotRets,
     Result(RetsNode(0, "OK", "TRANSACTIONID", "attr", "T1", "", NoBlock, NoBlock)),
     Result(RetsNode(0, "OK", "TRANSACTION-ID", "attr", "T1", "", NoBlock, NoBlock)),
     Result(RetsNode(0, "OK", "TRANSACTIONID", "attr", "T1", "",
                     NoBlock, Block(TRUE, <<WarnLineA>>))),
     Result(RetsNode(20022, "Bad", "none", "attr", "T1", "",
                     Block(TRUE, <<ErrLineA, ErrLineB>>), NoBlock))}

Failures == {Outcome(TRUE, FALSE, 0, ResultUndefined),
             Outcome(FALSE, FALSE, 0, ResultUndefined),
             Outcome(FALSE, TRUE, 500, ResultUndefined)}
Answers(results) == Failures \cup {Outcome(FALSE, TRUE, 200, r) : r \in results}

PlainAnswers == Answers({NotRets})
UpdateAnswers == Answers(SomeReplies)
DecodeAnswers == Answers(Replies)

Streams == {StreamOutcome(TRUE, UNDEF, UNDEF),
            StreamOutcome(FALSE, UNDEF, Str("bytes")),
            StreamOutcome(FALSE, Str("image/jpeg"), Str("bytes"))}

(***************************************************************************)
(* The Client's methods (part_003), their synchronous part; self is the    *)
(* Client they are called on.                                              *)
(***************************************************************************)
NoEffect == [thrown |-> TRUE, cbs |-> <<>>, req |-> NoReq, headers |-> <<>>]

\* Client.prototype.getMetadata: self.metadataModule is undefined until
\* configure has run, and reading getMetadata of it is a TypeError
Client_getMetadata(self, args) ==
    IF ~self.configured THEN NoEffect
    ELSE getMetadata(args[1], args[2], args[3], TRUE, sess.metadata)

Client_getObject(self, args) ==
    IF ~self.configured THEN NoEffect
    ELSE getObject(args[1], args[2], args[3], TRUE, sess.object)

\* Client.prototype.update hands (resourceType, classType, fields, auth,
\* callback) to the module: part_001 takes them as they are; part_000 takes
\* them as (resourceType, classType, updateType, fields, authParams) and gets
\* no sixth argument, so it has no callback
ErrUpdateNotSupported == "Update not supported"

Client_update(self, args, auth) ==
    IF ~self.updateModule
    THEN Effect(FALSE, <<Invocation(ErrUpdateNotSupported, UNDEF)>>, NoReq,
                HeadersOf(sess.update))
    ELSE IF impl = "part_000"
    THEN update_000(args[1], args[2], args[3], auth, FN, FALSE, sess.update)
    ELSE update_001(args[1], args[2], args[3], auth, TRUE, sess.update)

Client_update_moduleCb(self) == self.updateModule /\ impl = "part_001"

Client_logout(self) == logout(self.logoutRequest, TRUE)

(***************************************************************************)
(* Initial state: no login has succeeded; the modules hold no session.     *)
(***************************************************************************)
Init ==
    /\ impl \in {"part_000", "part_001"}
    /\ client = [configured |-> FALSE, updateModule |-> FALSE, logoutRequest |-> NoSession]
    /\ sess = [metadata |-> NoSession, object |-> NoSession, update |-> NoSession]
    /\ calls = <<>>
    /\ ncalls = 0

\* getClient's login succeeded: Client.prototype.configure(systemData, retsSession)
Configure(settings, hasUpdate) ==
    /\ ~client.configured
    /\ Idle
    /\ LET h == LoginHeaders(settings)
       IN  /\ sess' = [metadata |-> Session("GetMetadata", h),
                       object |-> Session("GetObject", h),
                       update |-> IF hasUpdate THEN Session("Update", h) ELSE sess.update]
           /\ client' = [configured |-> TRUE, updateModule |-> hasUpdate,
                         logoutRequest |-> Session("Logout", h)]
    /\ UNCHANGED <<impl, calls, ncalls>>

\* one operation after the other: the record of the previous one is dropped
CanBegin == Idle /\ ncalls < MaxCalls

Begin(call) ==
    /\ calls' = <<call>>
    /\ ncalls' = ncalls + 1

ModuleGetMetadata ==
    /\ CanBegin
    /\ \E args \in Triples, hasCb \in BOOLEAN :
          LET e == getMetadata(args[1], args[2], args[3], hasCb, sess.metadata)
          IN  Begin(Started("getMetadata", "module", args, hasCb, hasCb, e,
                            Seen("getMetadata", "module", e.cbs, hasCb)))
    /\ UNCHANGED <<impl, client, sess>>

ModuleGetObject ==
    /\ CanBegin
    /\ \E args \in Triples, hasCb \in BOOLEAN :
          LET e == getObject(args[1], args[2], args[3], hasCb, sess.object)
          IN  Begin(Started("getObject", "module", args, hasCb, hasCb, e,
                            Seen("getObject", "module", e.cbs, hasCb)))
    /\ UNCHANGED <<impl, client, sess>>

\* the update module called directly, with the arguments its variant declares
Module_update(args, auth, hasCb) ==
    IF impl = "part_000"
    THEN update_000(args[1], args[2], Str("Change"), args[3], auth, hasCb, sess.update)
    ELSE update_001(args[1], args[2], args[3], auth, hasCb, sess.update)

ModuleUpdate ==
    /\ CanBegin
    /\ \E args \in UpdateTriples, auth \in Auths, hasCb \in BOOLEAN :
          LET e == Module_update(args, auth, hasCb)
          IN  /\ Begin(Started("update", "module", args \o <<auth>>, hasCb, hasCb, e,
                               Seen("update", "module", e.cbs, hasCb)))
              /\ sess' = [sess EXCEPT !.update = WithHeaders(@, e.headers)]
    /\ UNCHANGED <<impl, client>>

ClientGetMetadata ==
    /\ CanBegin
    /\ \E args \in Triples, hasCb \in BOOLEAN :
          LET e == Client_getMetadata(client, args)
          IN  Begin(Started("getMetadata", "client", args, hasCb, TRUE, e,
                            Seen("getMetadata", "client", e.cbs, hasCb)))
    /\ UNCHANGED <<impl, client, sess>>

ClientGetObject ==
    /\ CanBegin
    /\ \E args \in Triples, hasCb \in BOOLEAN :
          LET e == Client_getObject(client, args)
          IN  Begin(Started("getObject", "client", args, hasCb, TRUE, e,
                            Seen("getObject", "client", e.cbs, hasCb)))
    /\ UNCHANGED <<impl, client, sess>>

ClientUpdate ==
    /\ CanBegin
    /\ \E args \in UpdateTriples, auth \in Auths, hasCb \in BOOLEAN :
          LET e == Client_update(client, args, auth)
          IN  /\ Begin(Started("update", "client", args \o <<auth>>, hasCb,
                               Client_update_moduleCb(client), e,
                               Seen("update", "client", e.cbs, hasCb)))
              /\ sess' = [sess EXCEPT !.update = WithHeaders(@, e.headers)]
    /\ UNCHANGED <<impl, client>>

ClientLogout ==
    /\ CanBegin
    /\ \E hasCb \in BOOLEAN :
          LET e == Client_logout(client)
          IN  Begin(Started("logout", "client", <<>>, hasCb, TRUE, e,
                            Seen("logout", "client", e.cbs, hasCb)))
    /\ UNCHANGED <<impl, client, sess>>

(***************************************************************************)
(* The transport completes a request.                                      *)
(***************************************************************************)
InFlight(i, op) == /\ calls[i].pc = "inflight"
                   /\ calls[i].op = op

Respond(i, out, r) ==
    /\ calls' = [calls EXCEPT ![i] = Finished(@, out, r)]
    /\ UNCHANGED <<impl, client, sess, ncalls>>

RespondMetadata ==
    \E i \in DOMAIN calls :
        /\ InFlight(i, "getMetadata")
        /\ \E out \in PlainAnswers :
              Respond(i, out, onResponse_getMetadata(out, calls[i].moduleCb))

RespondUpdate ==
    \E i \in DOMAIN calls :
        /\ InFlight(i, "update")
        /\ \E out \in UpdateAnswers :
              Respond(i, out, onResponse_update(impl, out, calls[i].moduleCb))

RespondLogout ==
    \E i \in DOMAIN calls :
        /\ InFlight(i, "logout")
        /\ \E out \in PlainAnswers :
              Respond(i, out, onResponse_logout(out, calls[i].moduleCb))

StreamObject ==
    \E i \in DOMAIN calls :
        /\ InFlight(i, "getObject")
        /\ \E out \in Streams :
              Respond(i, out, onStream_getObject(out, calls[i].moduleCb))

Login == \E settings \in LoginSettings, hasUpdate \in BOOLEAN : Configure(settings, hasUpdate)

Next ==
    \/ Login
    \/ ModuleGetMetadata
    \/ ModuleGetObject
    \/ ModuleUpdate
    \/ ClientGetMetadata
    \/ ClientGetObject
    \/ ClientUpdate
    \/ ClientLogout
    \/ RespondMetadata
    \/ RespondUpdate
    \/ RespondLogout
    \/ StreamObject

Spec == Init /\ [][Next]_vars

\* The transport completes every request it was handed, with a response or
\* with an error: there is no cancellation, so a request in flight is
\* answered in the end.
LiveSpec ==
    /\ Spec
    /\ WF_vars(RespondMetadata)
    /\ WF_vars(RespondUpdate)
    /\ WF_vars(RespondLogout)
    /\ WF_vars(StreamObject)

(***************************************************************************)
(* Update calls in flight together on one update session, after a login.   *)
(***************************************************************************)
ValidUpdate == <<Given, Given, Fields>>

InitUpdate ==
    /\ impl \in {"part_000", "part_001"}
    /\ \E settings \in LoginSettings :
          /\ client = [configured |-> TRUE, updateModule |-> TRUE,
                       logoutRequest |-> Session("Logout", LoginHeaders(settings))]
          /\ sess = [metadata |-> Session("GetMetadata", LoginHeaders(settings)),
                     object |-> Session("GetObject", LoginHeaders(settings)),
                     update |-> Session("Update", LoginHeaders(settings))]
    /\ calls = <<>>
    /\ ncalls = 0

ConcurrentUpdate ==
    /\ Len(calls) < MaxUpdates
    /\ \E auth \in Auths :
          LET e == Module_update(ValidUpdate, auth, TRUE)
          IN  /\ calls' = Append(calls,
                                 Started("update", "module", ValidUpdate \o <<auth>>, TRUE,
                                         TRUE, e, Seen("update", "module", e.cbs, TRUE)))
              /\ sess' = [sess EXCEPT !.update = WithHeaders(@, e.headers)]
    /\ ncalls' = ncalls + 1
    /\ UNCHANGED <<impl, client>>

TwoAnswers == {Outcome(TRUE, FALSE, 0, ResultUndefined),
               Outcome(FALSE, TRUE, 200,
                       Result(RetsNode(0, "OK", "TRANSACTIONID", "attr", "T1", "",
                                       NoBlock, NoBlock)))}

AnswerUpdate ==
    \E i \in DOMAIN calls :
        /\ InFlight(i, "update")
        /\ \E out \in TwoAnswers :
              Respond(i, out, onResponse_update(impl, out, calls[i].moduleCb))

NextUpdate ==
    \/ ConcurrentUpdate
    \/ AnswerUpdate

SpecUpdate == InitUpdate /\ [][NextUpdate]_vars

(***************************************************************************)
(* Decoding of Update replies: one valid Update call at a time, answered   *)
(* with any reply tree of the model.                                       *)
(***************************************************************************)
DecodeUpdate ==
    /\ Idle
    /\ \E hasCb \in BOOLEAN :
          LET e == Module_update(ValidUpdate, EmptyObj, hasCb)
          IN  calls' = <<Started("update", "module", ValidUpdate \o <<EmptyObj>>, hasCb,
                                 hasCb, e, Seen("update", "module", e.cbs, hasCb))>>
    /\ UNCHANGED <<impl, client, sess, ncalls>>

DecodeReply ==
    \E i \in DOMAIN calls :
        /\ InFlight(i, "update")
        /\ \E out \in DecodeAnswers :
              Respond(i, out, onResponse_update(impl, out, calls[i].moduleCb))

NextDecode ==
    \/ DecodeUpdate
    \/ DecodeReply

SpecDecode == InitUpdate /\ [][NextDecode]_vars

(***************************************************************************)
(* Several Clients in one process.  Each getClient makes its own Client,   *)
(* and each successful login runs configure on it; the metadata, object    *)
(* and update modules are loaded once per process, so their session        *)
(* variables (sess) are shared by all Clients, while logoutRequest is a    *)
(* field of the Client.  The log of calls is kept, each call with the      *)
(* Client it was invoked on.                                               *)
(***************************************************************************)
Clients == {"A", "B"}

\* the login context of each Client: its login URL and its settings
LoginUrl(c) == "http://" \o c \o "/"
SettingsOf(c) == IF c = "A" THEN EmptyObj
                 ELSE Obj([userAgent |-> "UA", userAgentPassword |-> "uapw"])

\* url.resolve(self.loginUrl, moduleURL), for a login URL that ends with a
\* slash and a relative module URL
Resolve(loginUrl, moduleURL) == loginUrl \o moduleURL

\* the capability URL each operation is bound to
ModuleUrl(op) ==
    CASE op = "getMetadata" -> "GetMetadata"
      [] op = "getObject" -> "GetObject"
      [] op = "update" -> "Update"
      [] op = "logout" -> "Logout"

InitClients ==
    /\ impl \in {"part_000", "part_001"}
    /\ client = [c \in Clients |->
                    [configured |-> FALSE, updateModule |-> FALSE,
                     logoutRequest |-> NoSession]]
    /\ sess = [metadata |-> NoSession, object |-> NoSession, update |-> NoSession]
    /\ calls = <<>>
    /\ ncalls = 0

\* the login of Client c succeeded: configure runs on it and each module
\* factory stores the new sub-session in its module's variable
ConfigureClient ==
    /\ Idle
    /\ \E c \in Clients, hasUpdate \in BOOLEAN :
          /\ ~client[c].configured
          /\ LET h == LoginHeaders(SettingsOf(c))
                 u == LoginUrl(c)
             IN  /\ sess' = [metadata |-> Session(Resolve(u, ModuleUrl("getMetadata")), h),
                             object |-> Session(Resolve(u, ModuleUrl("getObject")), h),
                             update |-> IF hasUpdate
                                        THEN Session(Resolve(u, ModuleUrl("update")), h)
                                        ELSE sess.update]
                 /\ client' = [client EXCEPT ![c] =
                                  [configured |-> TRUE, updateModule |-> hasUpdate,
                                   logoutRequest |->
                                       Session(Resolve(u, ModuleUrl("logout")), h)]]
    /\ UNCHANGED <<impl, calls, ncalls>>

\* a method of Client c is invoked, with valid arguments and a callback
InvokeOn ==
    /\ Idle
    /\ Len(calls) < MaxCalls
    /\ \E c \in Clients, op \in {"getMetadata", "getObject", "update", "logout"} :
          LET self == client[c]
              args == CASE op = "update" -> ValidUpdate \o <<EmptyObj>>
                        [] op = "logout" -> <<>>
                        [] OTHER -> <<Given, Given, Given>>
              e == CASE op = "getMetadata" -> Client_getMetadata(self, args)
                     [] op = "getObject" -> Client_getObject(self, args)
                     [] op = "update" -> Client_update(self, args, EmptyObj)
                     [] op = "logout" -> Client_logout(self)
              moduleCb == IF op = "update" THEN Client_update_moduleCb(self) ELSE TRUE
              call == Started(op, "client", args, TRUE, moduleCb, e,
                              Seen(op, "client", e.cbs, TRUE))
          IN  /\ calls' = Append(calls, ("owner" :> c) @@ call)
              /\ sess' = IF op = "update"
                         THEN [sess EXCEPT !.update = WithHeaders(@, e.headers)]
                         ELSE sess
    /\ ncalls' = ncalls + 1
    /\ UNCHANGED <<impl, client>>

NextClients ==
    \/ ConfigureClient
    \/ InvokeOn
    \/ RespondMetadata
    \/ RespondUpdate
    \/ RespondLogout
    \/ StreamObject

SpecClients == InitClients /\ [][NextClients]_vars

(***************************************************************************)
(* part_002, parseCompactMetadata(metadataXml, dataType).  A node of       *)
(* metadataXml carries the value attribute of its DELIMITER child ("" when *)
(* it has none), its COLUMNS and DATA children as lists of lines (empty    *)
(* when it has none; a line is the sequence of its characters) and its own *)
(* attributes.                                                             *)
(***************************************************************************)
Node(delimiter, columns, data, attrs) ==
    [DELIMITER |-> delimiter, COLUMNS |-> columns, DATA |-> data, attrs |-> attrs]

\* the loops of lines 89-91 and 108-110, for (i = 1; i < tmp.length-1; i++),
\* with the first and the last piece left out
Inner_KeepLast(pieces) == SubSeq(pieces, 2, Len(pieces))

\* lines 89-91 and 108-110: the pieces but the first and the last
Inner(pieces) == SubSeq(pieces, 2, Len(pieces) - 1)

\* lines 79-82: the delimiter in force for a node, given the one in force
\* before it
delimiterOf(node, delimiter) ==
    IF node.DELIMITER # "" /\ hex2a(node.DELIMITER) # ""
    THEN hex2a(node.DELIMITER)
    ELSE delimiter

\* lines 85-92
columnsOf(node, delimiter) ==
    IF node.COLUMNS = <<>> THEN <<>> ELSE Inner(Split(node.COLUMNS[1], delimiter))

\* lines 116-119 with every column paired with the field one place further
Res_Shifted(columns, rowData) ==
    [c \in {columns[j] : j \in DOMAIN columns} |->
        At(rowData, CHOOSE j \in DOMAIN columns :
                        columns[j] = c /\ \A k \in DOMAIN columns : columns[k] = c => k <= j)]

\* lines 116-119: res[columns[j]] = rows[i][j] for j = 0 .. columns.length-1,
\* a later column of the same name overwriting an earlier one
Res(columns, rowData) ==
    [c \in {columns[j] : j \in DOMAIN columns} |->
        At(rowData, (CHOOSE j \in DOMAIN columns :
                        columns[j] = c /\ \A k \in DOMAIN columns : columns[k] = c => k <= j)
                    - 1)]

\* lines 100-123: one record per DATA line (none when there is no DATA)
metaDataLst(node, delimiter) ==
    [i \in DOMAIN node.DATA |->
        Res(columnsOf(node, delimiter), Inner(Split(node.DATA[i], delimiter)))]

\* lines 94-98 and 124-125: the node's attributes and, under the data type
\* (after line 124 has defaulted it), its records
metaObj(node, delimiter, dataType) ==
    [t |-> "metaObj",
     attrs |-> [k \in DOMAIN node.attrs \ {dataType} |-> node.attrs[k]],
     key |-> dataType,
     list |-> metaDataLst(node, delimiter)]

\* lines 76-128: the loop over the nodes; the delimiter is declared before
\* the loop and stays as a node left it
RECURSIVE metaObjs(_, _, _)
metaObjs(metadataXml, delimiter, dataType) ==
    IF metadataXml = <<>> THEN <<>>
    ELSE LET d == delimiterOf(Head(metadataXml), delimiter)
         IN  <<metaObj(Head(metadataXml), d, dataType)>>
                \o metaObjs(Tail(metadataXml), d, dataType)

\* lines 73-131; dataType is defaulted inside the loop (line 124), so it
\* stays as given when there is no node
parseCompactMetadata(metadataXml, dataType) ==
    LET key == IF Truthy(dataType) THEN dataType.v ELSE "Data"
        objs == metaObjs(metadataXml, TAB, key)
    IN  IF dataType = Str("LookupTypes") THEN Arr(objs)
        ELSE IF objs = <<>> THEN UNDEF
        ELSE objs[Len(objs)]

(***************************************************************************)
(* Compact blocks to decode.  A line is written from its fields, each a    *)
(* sequence of characters, with the delimiter before, between and after.   *)
(***************************************************************************)
RECURSIVE EncodeLine(_, _)
EncodeLine(fields, d) ==
    IF fields = <<>> THEN <<d>>
    ELSE <<d>> \o Head(fields) \o EncodeLine(Tail(fields), d)

\* the string a sequence of characters spells
RECURSIVE Spell(_)
Spell(chars) == IF chars = <<>> THEN "" ELSE Head(chars) \o Spell(Tail(chars))

\* the names of n columns, and the field values of the model
ColumnNames(n) == [j \in 1..n |-> <<ToString(j)>>]
FieldValues == {<<>>, <<"x">>}

\* the delimiter a block written with this DELIMITER value uses
DelimiterChar(code) == IF code = "" THEN TAB ELSE hex2a(code)

\* rows for n columns: every row of n fields, a row of one field less and a
\* row of one field more
RowsFor(n) ==
    [1..n -> FieldValues] \cup {[j \in 1..k |-> <<"x">>] : k \in {n - 1, n + 1} \cap Nat}

\* a few blocks, told apart by their attributes, to hand over together
FewBlocks ==
    {Node("", <<EncodeLine(ColumnNames(1), TAB)>>, <<EncodeLine(<<<<"x">>>>, TAB)>>,
          [Version |-> "1"]),
     Node("", <<EncodeLine(ColumnNames(1), TAB)>>, <<>>, [Version |-> "2"]),
     Node("7C", <<EncodeLine(ColumnNames(2), "|")>>,
          <<EncodeLine(<<<<"x">>, <<>>>>, "|"), EncodeLine(<<<<>>, <<"x">>>>, "|")>>,
          [Version |-> "3"])}

DataTypes == {UNDEF, Str("Fields"), Str("LookupTypes")}

\* the decoder is the same whichever update module is loaded
InitCompact ==
    /\ impl = "part_000"
    /\ client = [configured |-> FALSE, updateModule |-> FALSE, logoutRequest |-> NoSession]
    /\ sess = [metadata |-> NoSession, object |-> NoSession, update |-> NoSession]
    /\ calls = <<>>
    /\ ncalls = 0

\* parseCompactMetadata applied to one block: with or without a DELIMITER
\* child, with or without a COLUMNS line, with up to MaxRows DATA lines
ParseBlock ==
    /\ calls = <<>>
    /\ \E code \in {"", "09", "7C"}, hasColumns \in BOOLEAN, n \in 0..MaxCols,
          dataType \in DataTypes :
          \E rows \in SeqsUpTo(RowsFor(n), MaxRows) :
             LET d == DelimiterChar(code)
                 block == Node(code,
                               IF hasColumns THEN <<EncodeLine(ColumnNames(n), d)>>
                               ELSE <<>>,
                               [i \in DOMAIN rows |-> EncodeLine(rows[i], d)],
                               [Version |-> "1"])
             IN  calls' = <<[op |-> "parseCompactMetadata", args |-> <<<<block>>, dataType>>,
                             result |-> parseCompactMetadata(<<block>>, dataType)]>>
    /\ ncalls' = ncalls + 1
    /\ UNCHANGED <<impl, client, sess>>

\* parseCompactMetadata applied to several blocks together
ParseBlocks ==
    /\ calls = <<>>
    /\ \E metadataXml \in SeqsUpTo(FewBlocks, MaxNodes), dataType \in DataTypes :
          calls' = <<[op |-> "parseCompactMetadata", args |-> <<metadataXml, dataType>>,
                      result |-> parseCompactMetadata(metadataXml, dataType)]>>
    /\ ncalls' = ncalls + 1
    /\ UNCHANGED <<impl, client, sess>>

\* a record set (n columns, rows of n values) written as a compact block
\* with a chosen delimiter and decoded
RoundTrip ==
    /\ calls = <<>>
    /\ \E n \in 1..MaxCols, code \in {"09", "7C", "2C"} :
          \E rows \in SeqsUpTo([1..n -> FieldValues], MaxRows) :
             LET d == DelimiterChar(code)
                 block == Node(code, <<EncodeLine(ColumnNames(n), d)>>,
                               [i \in DOMAIN rows |-> EncodeLine(rows[i], d)],
                               [Version |-> "1"])
             IN  calls' = <<[op |-> "roundTrip", args |-> <<n, rows, code>>,
                             result |-> parseCompactMetadata(<<block>>, Str("Fields"))]>>
    /\ ncalls' = ncalls + 1
    /\ UNCHANGED <<impl, client, sess>>

NextCompact ==
    \/ ParseBlock
    \/ ParseBlocks
    \/ RoundTrip

SpecCompact == InitCompact /\ [][NextCompact]_vars

(***************************************************************************)
(* lib/object.js, getPhotos(resourceType, photoType, matrixId, callback).  *)
(* The body of the object response is the sequence of its pieces of text   *)
(* and of its line ends (CRLF); a Content-Type header is the sequence of   *)
(* its tokens, of which Quote and Semi are the characters the boundary     *)
(* expression tells apart, and no other token holds a quote or a semicolon.*)
(***************************************************************************)
CRLF == "\r\n"
Envelope == "<RETS ReplyCode=\"0\" ReplyText=\"SUCCESS\" ></RETS>"
Quote == "\""
Semi == ";"
NULL == [t |-> "null"]
Header(tokens) == [t |-> "header", tokens |-> tokens]
ErrBadContentType == "Bad contentType"
ErrMultipart == "multipart error"

\* the tokens from position k up to the first stop token (or the end)
RECURSIVE Run(_, _, _)
Run(tokens, k, stop) ==
    IF k > Len(tokens) \/ tokens[k] = stop THEN <<>>
    ELSE <<tokens[k]>> \o Run(tokens, k + 1, stop)

\* boundary= in any letter case (the expression's i flag)
IsBoundaryKey(token) == token \in {"boundary=", "Boundary=", "BOUNDARY="}

\* (?:"([^"]+)"|([^;]+)) tried right after the boundary= at position k
matchAt(tokens, k) ==
    LET quoted == Run(tokens, k + 2, Quote)
        bare == Run(tokens, k + 1, Semi)
    IN  IF /\ k + 1 <= Len(tokens)
           /\ tokens[k + 1] = Quote
           /\ quoted # <<>>
           /\ k + 2 + Len(quoted) <= Len(tokens)
        THEN [matched |-> TRUE, g1 |-> Str(Spell(quoted)), g2 |-> UNDEF]
        ELSE IF bare # <<>>
        THEN [matched |-> TRUE, g1 |-> UNDEF, g2 |-> Str(Spell(bare))]
        ELSE [matched |-> FALSE, g1 |-> UNDEF, g2 |-> UNDEF]

\* contentType.match(/boundary=(?:"([^"]+)"|([^;]+))/i), searched from k on
RECURSIVE matcher(_, _)
matcher(tokens, k) ==
    IF k > Len(tokens) THEN [matched |-> FALSE, g1 |-> UNDEF, g2 |-> UNDEF]
    ELSE IF IsBoundaryKey(tokens[k]) /\ matchAt(tokens, k).matched THEN matchAt(tokens, k)
    ELSE matcher(tokens, k + 1)

\* matcher[2] || matcher[1]
multipartBoundary(m) == OrElse(m.g2, m.g1)

\* array.splice(k, 0, item)
Splice(array, k, item) == SubSeq(array, 1, k) \o <<item>> \o SubSeq(array, k + 1, Len(array))

\* the loop that puts the envelope at the index of the empty line itself
spliceIndex_Same(i) == i

\* lines 93-97: the index at which the envelope is put for the empty line i
spliceIndex(i) == i + 1

\* lines 93-97, the for loop from index i (counted from 0) on; steps is the
\* number of iterations still looked at, and ended tells whether the loop
\* left by its condition within them
RECURSIVE spliceLoop(_, _, _)
spliceLoop(array, i, steps) ==
    IF ~(i < Len(array)) THEN [array |-> array, ended |-> TRUE]
    ELSE IF steps = 0 THEN [array |-> array, ended |-> FALSE]
    ELSE IF array[i + 1] = ""
    THEN spliceLoop(Splice(array, spliceIndex(i), Envelope), i + 1, steps - 1)
    ELSE spliceLoop(array, i + 1, steps - 1)

\* lines 92-98: the lines of the body after the loop; twice the number of
\* lines (and one) is more iterations than a loop that ends can make
normalize(body) ==
    LET array == Split(body, CRLF)
    IN  spliceLoop(array, 0, 2 * Len(array) + 1)

NoMultipart == [t |-> "none"]
\* multipart.parseMultipart(new Buffer(data), multipartBoundary, ...)
Multipart(data, boundary) == [t |-> "multipart", data |-> data, boundary |-> boundary]

\* what getPhotos has done when it returns: getObject is handed a function,
\* and an error it reports at once goes to callback(error), untested
getPhotos(resourceType, photoType, matrixId, hasCallback, session) ==
    LET e == getObject(resourceType, photoType, matrixId, TRUE, session)
    IN  IF e.cbs = <<>> \/ hasCallback THEN e
        ELSE Effect(TRUE, <<>>, NoReq, e.headers)

PhotoStep(thrown, cbs, pc, lines, multipart) ==
    [thrown |-> thrown, cbs |-> cbs, pc |-> pc, lines |-> lines, multipart |-> multipart]

\* lines 88-113: the function getPhotos hands to getObject, called when the
\* stream has ended or failed.  pc is "hung" when the loop does not end and
\* "multipart" when the buffer went to the multipart collaborator.
onStream_getPhotos(out, hasCallback) ==
    IF out.error
    THEN IF hasCallback
         THEN PhotoStep(FALSE, <<Invocation(ErrTransport, UNDEF)>>, "done", <<>>, NoMultipart)
         ELSE PhotoStep(TRUE, <<>>, "done", <<>>, NoMultipart)
    ELSE LET loop == normalize(out.content)
             m == matcher(out.contentType.tokens, 1)
         IN  IF ~loop.ended THEN PhotoStep(FALSE, <<>>, "hung", loop.array, NoMultipart)
             ELSE IF out.contentType.t # "header"
             THEN PhotoStep(TRUE, <<>>, "done", loop.array, NoMultipart)
             ELSE IF ~m.matched
             THEN IF hasCallback
                  THEN PhotoStep(FALSE, <<Invocation(ErrBadContentType, NULL)>>, "done",
                                 loop.array, NoMultipart)
                  ELSE PhotoStep(TRUE, <<>>, "done", loop.array, NoMultipart)
             ELSE PhotoStep(FALSE, <<>>, "multipart", loop.array,
                            Multipart(JoinWith(loop.array, CRLF), multipartBoundary(m)))

\* lines 106-112: the multipart collaborator calls back with (error, dataList)
onMultipart_getPhotos(error, dataList, hasCallback) ==
    IF hasCallback THEN Made(<<Invocation(error, dataList)>>) ELSE Threw

\* Client.prototype.getPhotos
Client_getPhotos(self, args) ==
    IF ~self.configured THEN NoEffect
    ELSE getPhotos(args[1], args[2], args[3], TRUE, sess.object)

(***************************************************************************)
(* Photo retrieval after a login: one getPhotos call at a time, its stream *)
(* ending with any content type and body of the model.                     *)
(***************************************************************************)
MaxBody == 4        \* pieces of text and line ends in a body

BodyTokens == {CRLF, "a"}
ContentTypes ==
    {UNDEF,
     Header(<<"image/jpeg">>),
     Header(<<"multipart/parallel", Semi, "charset=utf-8">>),
     Header(<<"multipart/parallel", Semi, "boundary=">>),
     Header(<<"multipart/parallel", Semi, "boundary=", "abc">>),
     Header(<<"multipart/parallel", Semi, "BOUNDARY=", Quote, "a", Semi, "b", Quote, Semi,
              "charset=utf-8">>),
     Header(<<"multipart/parallel", Semi, "boundary=", Semi, "boundary=", "abc", Semi>>)}

InitPhotos ==
    /\ impl = "part_000"
    /\ LET h == LoginHeaders(EmptyObj)
       IN  /\ client = [configured |-> TRUE, updateModule |-> FALSE,
                        logoutRequest |-> Session("Logout", h)]
           /\ sess = [metadata |-> Session("GetMetadata", h),
                      object |-> Session("GetObject", h),
                      update |-> NoSession]
    /\ calls = <<>>
    /\ ncalls = 0

PhotosIdle == \A i \in DOMAIN calls : calls[i].pc \in {"done", "hung"}

StartedPhotos(level, args, hasCb, e) ==
    Started("getPhotos", level, args, hasCb, hasCb \/ level = "client", e,
            Seen("getPhotos", level, e.cbs, hasCb))
        @@ [lines |-> <<>>, multipart |-> NoMultipart]

ModuleGetPhotos ==
    /\ PhotosIdle
    /\ ncalls < MaxCalls
    /\ \E args \in Triples, hasCb \in BOOLEAN :
          Begin(StartedPhotos("module", args, hasCb,
                              getPhotos(args[1], args[2], args[3], hasCb, sess.object)))
    /\ UNCHANGED <<impl, client, sess>>

ClientGetPhotos ==
    /\ PhotosIdle
    /\ ncalls < MaxCalls
    /\ \E args \in Triples, hasCb \in BOOLEAN :
          Begin(StartedPhotos("client", args, hasCb, Client_getPhotos(client, args)))
    /\ UNCHANGED <<impl, client, sess>>

\* the object stream of a getPhotos call ends or fails
StreamPhotos ==
    \E i \in DOMAIN calls :
        /\ InFlight(i, "getPhotos")
        /\ \E error \in BOOLEAN, contentType \in ContentTypes,
              body \in SeqsUpTo(BodyTokens, MaxBody) :
              LET out == StreamOutcome(error, IF error THEN UNDEF ELSE contentType,
                                       IF error THEN <<>> ELSE body)
                  r == onStream_getPhotos(out, calls[i].moduleCb)
              IN  /\ error => contentType = UNDEF /\ body = <<>>
                  /\ calls' = [calls EXCEPT ![i] =
                                  [Finished(@, out, r) EXCEPT !.pc = r.pc, !.lines = r.lines,
                                                              !.multipart = r.multipart]]
        /\ UNCHANGED <<impl, client, sess, ncalls>>

\* the multipart collaborator is done with the buffer it was handed
MultipartDone ==
    \E i \in DOMAIN calls :
        /\ calls[i].pc = "multipart"
        /\ \E answer \in {<<NoErr, Arr(<<>>)>>, <<NoErr, Arr(<<"photo">>)>>,
                          <<ErrMultipart, UNDEF>>} :
              LET r == onMultipart_getPhotos(answer[1], answer[2], calls[i].moduleCb)
              IN  calls' = [calls EXCEPT ![i] = Finished(@, @.resp, r)]
        /\ UNCHANGED <<impl, client, sess, ncalls>>

NextPhotos ==
    \/ ModuleGetPhotos
    \/ ClientGetPhotos
    \/ StreamPhotos
    \/ MultipartDone

SpecPhotos == InitPhotos /\ [][NextPhotos]_vars

(***************************************************************************)
(* The header sets built from a settings hash: the one auth.login builds   *)
(* for the session (lib/auth.js lines 21-25) and the per-call one update   *)
(* builds from authParams (part_000 lines 38-50).                          *)
(***************************************************************************)
\* the settings hashes of the model: each key absent, empty or given
Optional(k, values) == {<<>>} \cup {k :> v : v \in values}

SettingsInputs ==
    {Obj(Merge(Merge(Merge(ua, pw), Merge(version, sessionId)), delegate)) :
        ua \in Optional("userAgent", {"", "UA"}),
        pw \in Optional("userAgentPassword", {"", "uapw"}),
        version \in Optional("version", {"RETS/1.5"}),
        sessionId \in Optional("sessionId", {"s1"}),
        delegate \in {<<>>, [delegateId |-> "idA", delegateHash |-> "hashA",
                             delegatePassword |-> "pwA"]}}

Built(op, settings, headers) == [op |-> op, args |-> <<settings>>, result |-> headers]

InitHeaders ==
    /\ impl = "part_000"
    /\ client = [configured |-> FALSE, updateModule |-> FALSE, logoutRequest |-> NoSession]
    /\ sess = [metadata |-> NoSession, object |-> NoSession, update |-> NoSession]
    /\ calls = <<>>
    /\ ncalls = 0

\* auth.login builds the headers of the session from the settings
BuildLoginHeaders ==
    /\ ncalls < MaxCalls
    /\ \E settings \in SettingsInputs :
          Begin(Built("login.headers", settings, LoginHeaders(settings)))
    /\ UNCHANGED <<impl, client, sess>>

\* update builds its per-call headers from authParams
BuildDelegateHeaders ==
    /\ ncalls < MaxCalls
    /\ \E authParams \in SettingsInputs :
          Begin(Built("update.delegateHeaders", authParams, delegateHeaders_000(authParams)))
    /\ UNCHANGED <<impl, client, sess>>

NextHeaders ==
    \/ BuildLoginHeaders
    \/ BuildDelegateHeaders

SpecHeaders == InitHeaders /\ [][NextHeaders]_vars

(***************************************************************************)
(* getClient (part_003 lines 52-77), auth.login (lib/auth.js lines 17-98)  *)
(* and Client.prototype.configure (part_003 lines 94-131).  The root       *)
(* session is the request template login makes, with its cookie jar; a     *)
(* sub-session is retsSession.defaults({uri: ...}), the root session with  *)
(* another uri.  The RETS-RESPONSE text of a login reply is the sequence   *)
(* of its lines, each the sequence of its pieces of text and "=" signs.    *)
(***************************************************************************)
RootSession(settings) ==
    [t |-> "session", uri |-> Text(Get(settings, "loginUrl")),
     headers |-> LoginHeaders(settings), jar |-> "cookieJar"]

\* retsSession.defaults({uri: uri})
Defaults(retsSession, uri) == [retsSession EXCEPT !.uri = uri]

\* lines 113-117, _subSession(moduleURL): url.resolve raises a TypeError
\* when either of its arguments is not a string
subSession(loginUrl, moduleURL, retsSession) ==
    IF loginUrl.t # "string" \/ moduleURL.t # "string"
    THEN [throws |-> TRUE, session |-> NoSession]
    ELSE [throws |-> FALSE,
          session |-> Defaults(retsSession, Resolve(loginUrl.v, moduleURL.v))]

\* lib/auth.js lines 73-83: the key=value lines of the RETS-RESPONSE; a line
\* gives systemData[pieces[0]] = pieces[1] when it has two pieces or more,
\* and a later line of the same key overwrites an earlier one
RECURSIVE systemDataOf(_)
systemDataOf(keyVals) ==
    IF keyVals = <<>> THEN <<>>
    ELSE LET keyValSplit == Split(keyVals[Len(keyVals)], "=")
             before == systemDataOf(SubSeq(keyVals, 1, Len(keyVals) - 1))
         IN  IF Len(keyValSplit) > 1
             THEN Merge(before, keyValSplit[1] :> keyValSplit[2])
             ELSE before

ErrStatusLogin == "RETS method login returned unexpected HTTP status code"
ErrUnexpectedResults == "Unexpected results. Please check the URL"

\* the body of a login reply as xml2js hands it over: no XML, a document
\* without RETS root, a RETS root without RETS-RESPONSE, or a RETS-RESPONSE
NoXml == [t |-> "undefined"]
LoginBody(hasRets, hasResponse, keyVals) ==
    [t |-> "result", RETS |-> hasRets, response |-> hasResponse, keyVals |-> keyVals]

LoginOutcome(error, response, status, body) ==
    [t |-> "outcome", error |-> error, response |-> response, status |-> status,
     body |-> body]

\* lib/auth.js lines 41-97: what login hands to its callback
onResponse_login(out, settings) ==
    IF out.response /\ out.status # 200 THEN Invocation(ErrStatusLogin, UNDEF)
    ELSE IF out.error THEN Invocation(ErrTransport, UNDEF)
    ELSE IF out.body.t = "undefined" \/ ~out.body.RETS \/ ~out.body.response
    THEN Invocation(ErrUnexpectedResults, UNDEF)
    ELSE Invocation(NoErr, [systemData |-> Obj(systemDataOf(out.body.keyVals)),
                            retsSession |-> RootSession(settings)])

\* the Client getClient makes: nothing is bound, nothing was emitted
NewClient ==
    [configured |-> FALSE, metadataModule |-> FALSE, searchModule |-> FALSE,
     objectModule |-> FALSE, updateModule |-> FALSE, logoutRequest |-> NoSession,
     loginUrl |-> UNDEF, events |-> <<>>]

NoSessions ==
    [metadata |-> NoSession, search |-> NoSession, object |-> NoSession, update |-> NoSession]

\* part_003 lines 94-131, statement by statement: the Client and the
\* modules' session variables as configure leaves them, and whether it
\* raised on the way
configure(self, sessions, systemData, retsSession) ==
    LET loginUrl == Get(systemData, "Login")
        m == subSession(loginUrl, Get(systemData, "GetMetadata"), retsSession)
        s == subSession(loginUrl, Get(systemData, "Search"), retsSession)
        o == subSession(loginUrl, Get(systemData, "GetObject"), retsSession)
        u == subSession(loginUrl, Get(systemData, "Update"), retsSession)
        l == subSession(loginUrl, Get(systemData, "Logout"), retsSession)
        hasUpdate == "Update" \in DOMAIN systemData.p
        c0 == [self EXCEPT !.loginUrl = loginUrl]
        c1 == [c0 EXCEPT !.metadataModule = TRUE]
        s1 == [sessions EXCEPT !.metadata = m.session]
        c2 == [c1 EXCEPT !.searchModule = TRUE]
        s2 == [s1 EXCEPT !.search = s.session]
        c3 == [c2 EXCEPT !.objectModule = TRUE]
        s3 == [s2 EXCEPT !.object = o.session]
        c4 == IF hasUpdate THEN [c3 EXCEPT !.updateModule = TRUE] ELSE c3
        s4 == IF hasUpdate THEN [s3 EXCEPT !.update = u.session] ELSE s3
        c5 == [c4 EXCEPT !.logoutRequest = l.session, !.configured = TRUE]
    IN  IF m.throws THEN [throws |-> TRUE, self |-> c0, sessions |-> sessions]
        ELSE IF s.throws THEN [throws |-> TRUE, self |-> c1, sessions |-> s1]
        ELSE IF o.throws THEN [throws |-> TRUE, self |-> c2, sessions |-> s2]
        ELSE IF hasUpdate /\ u.throws THEN [throws |-> TRUE, self |-> c3, sessions |-> s3]
        ELSE IF l.throws THEN [throws |-> TRUE, self |-> c4, sessions |-> s4]
        ELSE [throws |-> FALSE, self |-> c5, sessions |-> s4]

Emit(self, name, err) == [self EXCEPT !.events = Append(@, Event(name, err, UNDEF))]

\* part_003 lines 63-74, the function getClient hands to login, called with
\* inv.  An exception configure raises leaves it inside xml2js's parseString
\* callback; reported tells whether xml2js hands it to login's parse
\* callback as a parse error (login then reports ErrUnexpectedResults, and
\* the function is called a second time) or lets it go.
onLogin(self, sessions, inv, reported) ==
    IF inv.err # NoErr
    THEN [throws |-> FALSE, self |-> Emit(self, "connection.failure", inv.err),
          sessions |-> sessions]
    ELSE LET c == configure(self, sessions, inv.data.systemData, inv.data.retsSession)
         IN  IF ~c.throws
             THEN [throws |-> FALSE, self |-> Emit(c.self, "connection.success", NoErr),
                   sessions |-> c.sessions]
             ELSE IF reported
             THEN [throws |-> FALSE,
                   self |-> Emit(c.self, "connection.failure", ErrUnexpectedResults),
                   sessions |-> c.sessions]
             ELSE c

(***************************************************************************)
(* One getClient call and the answer to its login request.                 *)
(***************************************************************************)
TheLoginUrl == "http://host/"
GetClientSettings ==
    {Obj("loginUrl" :> TheLoginUrl),
     Obj([loginUrl |-> TheLoginUrl, userAgent |-> "UA", userAgentPassword |-> "uapw"])}

Capabilities == {"GetMetadata", "Search", "GetObject", "Update", "Logout"}

\* the line of a key of the login reply
KeyVal(key) ==
    IF key = "Login" THEN <<key, "=", TheLoginUrl>>
    ELSE IF key = "MemberName" THEN <<key>>
    ELSE <<key, "=", key>>

\* the RETS-RESPONSE of a reply that names the keys of a set, in this order
RECURSIVE KeyVals(_, _)
KeyVals(order, keys) ==
    IF order = <<>> THEN <<>>
    ELSE (IF Head(order) \in keys THEN <<KeyVal(Head(order))>> ELSE <<>>)
            \o KeyVals(Tail(order), keys)

\* the answers to a login request: failures of the exchange, and replies
\* that name the member, GetMetadata and Search and any of the other keys
LoginAnswers ==
    {LoginOutcome(TRUE, FALSE, 0, NoXml),
     LoginOutcome(FALSE, TRUE, 401, NoXml),
     LoginOutcome(TRUE, TRUE, 200, NoXml),
     LoginOutcome(FALSE, TRUE, 200, NoXml),
     LoginOutcome(FALSE, TRUE, 200, LoginBody(FALSE, FALSE, <<>>)),
     LoginOutcome(FALSE, TRUE, 200, LoginBody(TRUE, FALSE, <<>>))}
    \cup {LoginOutcome(FALSE, TRUE, 200,
                       LoginBody(TRUE, TRUE,
                                 KeyVals(<<"MemberName", "Login", "GetMetadata", "Search",
                                           "GetObject", "Update", "Logout">>,
                                         keys \cup {"MemberName", "GetMetadata", "Search"}))) :
            keys \in SUBSET {"Login", "GetObject", "Update", "Logout"}}

InitLogin ==
    /\ impl \in {"part_000", "part_001"}
    /\ client = NewClient
    /\ sess = NoSessions
    /\ calls = <<>>
    /\ ncalls = 0

\* getClient(settings): a new Client, and the login request goes out
GetClient ==
    /\ calls = <<>>
    /\ \E settings \in GetClientSettings :
          calls' = <<[op |-> "login", args |-> <<settings>>, pc |-> "inflight",
                      thrown |-> FALSE, req |-> Issue(RootSession(settings), <<>>, NoHeaders),
                      resp |-> NoResp]>>
    /\ client' = NewClient
    /\ ncalls' = ncalls + 1
    /\ UNCHANGED <<impl, sess>>

\* the transport answers the login request
LoginResponds ==
    \E i \in DOMAIN calls :
        /\ InFlight(i, "login")
        /\ \E out \in LoginAnswers, reported \in BOOLEAN :
              LET r == onLogin(client, sess, onResponse_login(out, calls[i].args[1]),
                               reported)
              IN  /\ calls' = [calls EXCEPT ![i].pc = "done", ![i].resp = out,
                                            ![i].thrown = r.throws]
                  /\ client' = r.self
                  /\ sess' = r.sessions
        /\ UNCHANGED <<impl, ncalls>>

NextLogin ==
    \/ GetClient
    \/ LoginResponds

SpecLogin == InitLogin /\ [][NextLogin]_vars

(***************************************************************************)
(* Properties.                                                             *)
(***************************************************************************)
Completed(c) == c.pc = "done" /\ c.resp.t # "none"
IsFailureEvent(e) == e.err # NoErr
AuthOf(c) == c.args[4]
ReplyOf(c) == c.resp.result.RETS
Decodable(c) == /\ c.op = "update"
                /\ c.resp.t = "outcome"
                /\ ~c.resp.error /\ c.resp.response /\ c.resp.status = 200
                /\ c.resp.result.t = "result"
                /\ c.resp.result.RETS.t = "node"
MissingParam(c) == \E k \in 1..3 : ~Truthy(c.args[k])
InvalidState == {ErrNoLogin, ErrUpdateNotSupported}

\* C1: every request of a Client operation that completes produces exactly
\* one outcome: the caller's callback, if supplied, is invoked exactly once
\* and exactly one of the success and failure events is emitted; a failure
\* produces no success event and no second callback invocation.
C1_ExactlyOneOutcome ==
    \A i \in DOMAIN calls :
        (calls[i].level = "client" /\ Completed(calls[i])) =>
            /\ Len(calls[i].cbs) = (IF calls[i].hasCb THEN 1 ELSE 0)
            /\ Len(calls[i].events) = 1
            /\ \A k \in DOMAIN calls[i].cbs :
                  (calls[i].cbs[k].err # NoErr) = IsFailureEvent(calls[i].events[1])

\* C2: when Update calls with different delegate parameter sets are in flight
\* together on one update session, the request of each carries the
\* X-Delegate-ID of its own parameters and, if it carries an
\* X-Delegate-Authorization, the digest of its own parameters, never a value
\* of another call.
OwnDelegateAuth(auth) ==
    DelegateAuth(SecondWord(addAuthHeaders(auth, NoHeaders)["RETS-UA-Authorization"]), auth)

C2_OwnDelegateHeaders ==
    \A i \in DOMAIN calls :
        (HasDelegate(AuthOf(calls[i])) /\ calls[i].req.t = "request") =>
            /\ HasHeader(calls[i].req.headers, "X-Delegate-ID")
            /\ calls[i].req.headers["X-Delegate-ID"] = Plain(AuthOf(calls[i]).p.delegateId)
            /\ HasHeader(calls[i].req.headers, "X-Delegate-Authorization") =>
                  /\ HasHeader(addAuthHeaders(AuthOf(calls[i]), NoHeaders),
                               "RETS-UA-Authorization")
                  /\ calls[i].req.headers["X-Delegate-Authorization"]
                        = OwnDelegateAuth(AuthOf(calls[i]))

\* two delegated Update calls with different parameters are in flight together
\* on the variant that writes to the session's headers
C2_Witness ==
    /\ impl = "part_001"
    /\ Len(calls) >= 2
    /\ AuthOf(calls[1]) = AuthA /\ AuthOf(calls[2]) = AuthB
    /\ calls[1].pc = "inflight" /\ calls[2].pc = "inflight"
    /\ calls[2].req.headers["X-Delegate-ID"] = Plain("idB")

\* C3: an Update call never changes the update session's base header set
\* (it stays the header set built at login), and an Update call made without
\* delegate parameters sends neither X-Delegate-ID nor X-Delegate-Authorization.
C3_BaseHeadersUnchanged ==
    /\ sess.update.headers \in {LoginHeaders(settings) : settings \in LoginSettings}
    /\ \A i \in DOMAIN calls :
          (~HasDelegate(AuthOf(calls[i])) /\ calls[i].req.t = "request") =>
              /\ ~HasHeader(calls[i].req.headers, "X-Delegate-ID")
              /\ ~HasHeader(calls[i].req.headers, "X-Delegate-Authorization")

\* C4: when an Update made through Client.update ends with a protocol error
\* (a well-formed reply with a non-zero reply code), the caller's callback
\* receives the error together with the decoded payload: replyCode, replyText,
\* and the errors when the reply has an ERRORBLOCK.
C4_ProtocolErrorPayload ==
    \A i \in DOMAIN calls :
        (/\ calls[i].level = "client" /\ calls[i].hasCb
         /\ Decodable(calls[i]) /\ ReplyOf(calls[i]).ReplyCode # 0
         /\ ~MissingParam(calls[i])) =>
            /\ Len(calls[i].cbs) = 1
            /\ calls[i].cbs[1].err # NoErr
            /\ calls[i].cbs[1].data.t = "updateResults"
            /\ calls[i].cbs[1].data.replyCode = ReplyOf(calls[i]).ReplyCode
            /\ calls[i].cbs[1].data.replyText = ReplyOf(calls[i]).ReplyText
            /\ ReplyOf(calls[i]).ERRORBLOCK.present =>
                  /\ calls[i].cbs[1].data.errors.t = "array"
                  /\ Len(calls[i].cbs[1].data.errors.items)
                        = Len(ReplyOf(calls[i]).ERRORBLOCK.lines)

\* C5: when an Update reply has a non-zero ReplyCode and an ERRORBLOCK with N
\* ERRORDATA lines, the result the update module delivers has exactly N error
\* entries, in line order, each with its fields taken from positions 1-4 of
\* its line.
DelimiterOf(node) == IF node.DELIMITER = "" THEN TAB ELSE hex2a(node.DELIMITER)

C5_ErrorsOfProtocolError ==
    \A i \in DOMAIN calls :
        (/\ calls[i].level = "module" /\ calls[i].hasCb
         /\ Decodable(calls[i]) /\ ReplyOf(calls[i]).ReplyCode # 0
         /\ ReplyOf(calls[i]).ERRORBLOCK.present
         /\ ReplyOf(calls[i]).ERRORBLOCK.lines # <<>>
         /\ ~(ReplyOf(calls[i]).WARNINGBLOCK.present
              /\ ReplyOf(calls[i]).WARNINGBLOCK.lines = <<>>)) =>
            /\ Len(calls[i].cbs) = 1
            /\ calls[i].cbs[1].data.t = "updateResults"
            /\ calls[i].cbs[1].data.errors.t = "array"
            /\ LET lines == ReplyOf(calls[i]).ERRORBLOCK.lines
                   errors == calls[i].cbs[1].data.errors.items
               IN  /\ Len(errors) = Len(lines)
                   /\ \A k \in DOMAIN lines :
                         errors[k] = ErrorEntry(Split(lines[k], DelimiterOf(ReplyOf(calls[i]))))

WellFormedBlocks(node) ==
    /\ ~(node.ERRORBLOCK.present /\ node.ERRORBLOCK.lines = <<>>)
    /\ ~(node.WARNINGBLOCK.present /\ node.WARNINGBLOCK.lines = <<>>)

\* C6: Update reply decoding recognizes the transaction id in all four shapes
\* (tag TRANSACTIONID or TRANSACTION-ID, value as a value attribute or as the
\* node's text): decoding completes without raising and the result's
\* transactionId is that value.
C6_TransactionIdShapes ==
    \A i \in DOMAIN calls :
        (/\ calls[i].level = "module" /\ calls[i].hasCb
         /\ Decodable(calls[i]) /\ ReplyOf(calls[i]).ReplyCode = 0
         /\ ReplyOf(calls[i]).tidTag # "none"
         /\ WellFormedBlocks(ReplyOf(calls[i]))
         /\ calls[i].pc = "done") =>
            /\ ~calls[i].thrown
            /\ Len(calls[i].cbs) = 1
            /\ calls[i].cbs[1].data.t = "updateResults"
            /\ calls[i].cbs[1].data.transactionId = Str(ReplyOf(calls[i]).tidValue)

\* C7: for every Update reply with ReplyCode 0 and neither an ERRORBLOCK nor a
\* WARNINGBLOCK, decoding completes and the delivered result has errors = []
\* and warnings = [], with no error indicator.
C7_NoBlocksEmptyLists ==
    \A i \in DOMAIN calls :
        (/\ calls[i].level = "module" /\ calls[i].hasCb
         /\ Decodable(calls[i]) /\ ReplyOf(calls[i]).ReplyCode = 0
         /\ ~ReplyOf(calls[i]).ERRORBLOCK.present
         /\ ~ReplyOf(calls[i]).WARNINGBLOCK.present
         /\ calls[i].pc = "done") =>
            /\ ~calls[i].thrown
            /\ Len(calls[i].cbs) = 1
            /\ calls[i].cbs[1].err = NoErr
            /\ calls[i].cbs[1].data.t = "updateResults"
            /\ calls[i].cbs[1].data.errors = Arr(<<>>)
            /\ calls[i].cbs[1].data.warnings = Arr(<<>>)

\* C8: an operation (getMetadata, getObject, update) invoked with its
\* parameters before any login has succeeded (module constructed without a
\* session, Client not configured) reports an InvalidState error to the
\* caller, through the callback and, on a Client, the failure event, and
\* issues no request.
C8_InvalidStateBeforeLogin ==
    ~client.configured =>
        \A i \in DOMAIN calls :
            (/\ calls[i].op # "logout" /\ ~MissingParam(calls[i])
             /\ calls[i].op = "update" => Truthy(AuthOf(calls[i]))) =>
                /\ ~calls[i].thrown
                /\ calls[i].req.t = "none"
                /\ calls[i].hasCb =>
                      /\ Len(calls[i].cbs) = 1
                      /\ calls[i].cbs[1].err \in InvalidState
                /\ calls[i].level = "client" =>
                      /\ Len(calls[i].events) = 1
                      /\ calls[i].events[1].err \in InvalidState

\* C9: Client.logout on a Client for which no login has succeeded reports an
\* InvalidState error through the callback and the logout.failure event and
\* makes no transport call.
C9_LogoutBeforeLogin ==
    ~client.configured =>
        \A i \in DOMAIN calls :
            calls[i].op = "logout" =>
                /\ calls[i].req.t = "none"
                /\ ~calls[i].thrown
                /\ calls[i].hasCb => Len(calls[i].cbs) = 1 /\ calls[i].cbs[1].err # NoErr
                /\ Len(calls[i].events) = 1
                /\ calls[i].events[1].name = "logout.failure"

\* C10: for the module functions getMetadata, getObject and update, when a
\* required parameter is missing an error is delivered to the callback before
\* the call returns and no request is issued, whatever the other arguments
\* (an absent authParams included) and whatever the session state.
C10_MissingParamSynchronous ==
    \A i \in DOMAIN calls :
        (/\ calls[i].level = "module" /\ calls[i].hasCb
         /\ calls[i].op \in {"getMetadata", "getObject", "update"}
         /\ MissingParam(calls[i])) =>
            /\ ~calls[i].thrown
            /\ calls[i].req.t = "none"
            /\ calls[i].syncCbs = 1
            /\ Len(calls[i].cbs) = 1
            /\ calls[i].cbs[1].err # NoErr

\* C11: when the login response advertised no Update capability (the Client
\* is configured without an update module), every Client.update call reports
\* the unsupported feature: the callback, if given, receives the error once,
\* update.failure is emitted, update.success is not, and no request is issued.
C11_UpdateUnsupported ==
    (client.configured /\ ~client.updateModule) =>
        \A i \in DOMAIN calls :
            (calls[i].op = "update" /\ calls[i].level = "client") =>
                /\ ~calls[i].thrown
                /\ calls[i].req.t = "none"
                /\ calls[i].pc = "done"
                /\ calls[i].cbs = CallIf(calls[i].hasCb, ErrUpdateNotSupported, UNDEF)
                /\ calls[i].events = <<Event("update.failure", ErrUpdateNotSupported, UNDEF)>>

\* a Client configured without Update capability has been asked to update,
\* with a callback
C11_Witness ==
    /\ client.configured /\ ~client.updateModule
    /\ \E i \in DOMAIN calls :
          /\ calls[i].op = "update" /\ calls[i].level = "client" /\ calls[i].hasCb
          /\ ~MissingParam(calls[i])
          /\ Len(calls[i].events) >= 1

\* C12: with several Clients configured in one process, every request of an
\* operation invoked on a Client goes through that Client's own session: to
\* the URL resolved against its own login URL and with the headers of its
\* own login, never those of another Client.
C12_OwnSession ==
    \A i \in DOMAIN calls :
        calls[i].req.t = "request" =>
            /\ calls[i].req.uri = Resolve(LoginUrl(calls[i].owner), ModuleUrl(calls[i].op))
            /\ \A k \in {"User-Agent", "RETS-Version", "RETS-UA-Authorization"} :
                  /\ HasHeader(calls[i].req.headers, k)
                        = HasHeader(LoginHeaders(SettingsOf(calls[i].owner)), k)
                  /\ HasHeader(calls[i].req.headers, k) =>
                        calls[i].req.headers[k] = LoginHeaders(SettingsOf(calls[i].owner))[k]

\* C13: once a logout of a Client has succeeded, no later operation on that
\* Client (a second logout included) issues a request.
C13_LogoutInvalidates ==
    \A i \in DOMAIN calls : \A j \in DOMAIN calls :
        (/\ i < j
         /\ calls[i].op = "logout"
         /\ calls[i].events = <<Event("logout.success", NoErr, UNDEF)>>
         /\ calls[j].owner = calls[i].owner) =>
            calls[j].req.t = "none"

\* the transport's answer is a failure: an error, no response, a status other
\* than 200, or a body that is no RETS envelope
FailedOutcome(out) ==
    \/ out.error
    \/ ~out.response
    \/ out.status # 200
    \/ IF out.result.t = "undefined" THEN TRUE ELSE out.result.RETS.t = "undefined"

\* C14: for getMetadata and update, a transport error, a missing response, a
\* status other than 200 and a body that is no RETS envelope each end with
\* one invocation of the callback carrying an error, and no exception escapes.
C14_FailuresReported ==
    \A i \in DOMAIN calls :
        (/\ calls[i].level = "module" /\ calls[i].hasCb
         /\ calls[i].op \in {"getMetadata", "update"}
         /\ calls[i].resp.t = "outcome"
         /\ FailedOutcome(calls[i].resp)) =>
            /\ ~calls[i].thrown
            /\ Len(calls[i].cbs) = 1
            /\ calls[i].cbs[1].err # NoErr

\* the call ran into one of the exceptions that do not depend on the
\* callback: one raised before any request (no module on the Client, no
\* logout request, no authParams), or one of the Update reply decoding
ThrewRegardless(c) ==
    \/ c.thrown /\ c.req.t = "none"
    \/ c.op = "update" /\ c.resp.t = "outcome" /\ ~FailedOutcome(c.resp)
    \/ c.op = "update" /\ c.resp.t = "outcome" /\ c.resp.result.t = "undefined"
    \/ c.op = "logout" /\ c.resp.t = "outcome" /\ ~c.resp.response

\* C15: an operation invoked without a callback makes no call through the
\* missing callback and raises no exception, on the argument-error,
\* state-error, transport-error and success paths, and on a Client its
\* success or failure event is still emitted.  (Calls in which the Client's
\* own callback does not reach the module, for its parameter list, are
\* left to C4.)
C15_CallbackOptional ==
    \A i \in DOMAIN calls :
        (/\ ~calls[i].hasCb
         /\ ~ThrewRegardless(calls[i])
         /\ calls[i].level = "client" => calls[i].moduleCb) =>
            /\ ~calls[i].thrown
            /\ calls[i].cbs = <<>>
            /\ (calls[i].level = "client" /\ calls[i].pc = "done") =>
                  Len(calls[i].events) >= 1

\* the fields of a line written with delimiter d: what lies between its
\* delimiters, the empty boundary pieces discarded
Between(line, d) ==
    LET pieces == Split(line, d)
    IN  [k \in 1..(Len(pieces) - 2) |-> pieces[k + 1]]

Bounded(line, d) == line # <<>> /\ Head(line) = d /\ line[Len(line)] = d

\* a valid compact block: a COLUMNS line, every line starting and ending
\* with the block's delimiter, every row with as many fields as columns
ValidBlock(node) ==
    LET d == DelimiterOf(node)
    IN  /\ node.COLUMNS # <<>>
        /\ Bounded(node.COLUMNS[1], d)
        /\ \A k \in DOMAIN node.DATA :
              /\ Bounded(node.DATA[k], d)
              /\ Len(Between(node.DATA[k], d)) = Len(Between(node.COLUMNS[1], d))

\* a call of parseCompactMetadata on one node, and what it returned for it
SingleParse(c) == c.op = "parseCompactMetadata" /\ Len(c.args[1]) = 1
ResultFor(c) == IF c.args[2] = Str("LookupTypes") THEN c.result.items[1] ELSE c.result

Ragged(node) ==
    \E k \in DOMAIN node.DATA :
        Len(Between(node.DATA[k], DelimiterOf(node)))
            # Len(Between(node.COLUMNS[1], DelimiterOf(node)))

\* C17: parseCompactMetadata reports a decode error for a block (of one
\* column at least) with a row whose field count differs from the column
\* count, and never returns a record in which a column has no value or a
\* row's extra fields are dropped.
C17_RaggedRowsRejected ==
    \A i \in DOMAIN calls :
        (/\ SingleParse(calls[i])
         /\ calls[i].args[1][1].COLUMNS # <<>>
         /\ Between(calls[i].args[1][1].COLUMNS[1],
                    DelimiterOf(calls[i].args[1][1])) # <<>>) =>
            LET node == calls[i].args[1][1]
                r == ResultFor(calls[i])
            IN  /\ Ragged(node) => r.t = "decodeError"
                /\ r.t = "metaObj" =>
                      \A k \in DOMAIN r.list :
                          /\ \A c \in DOMAIN r.list[k] : r.list[k][c] # UNDEF
                          /\ Len(Between(node.DATA[k], DelimiterOf(node)))
                                <= Len(Between(node.COLUMNS[1], DelimiterOf(node)))

\* C18: a node with no DATA lines yields an empty record list and no error;
\* a node with no COLUMNS line yields an empty record list whatever DATA
\* lines it has.
C18_EdgeCases ==
    \A i \in DOMAIN calls :
        (/\ SingleParse(calls[i])
         /\ calls[i].args[1][1].DATA = <<>> \/ calls[i].args[1][1].COLUMNS = <<>>) =>
            /\ ResultFor(calls[i]).t = "metaObj"
            /\ ResultFor(calls[i]).list = <<>>

RECURSIVE TotalData(_)
TotalData(nodes) ==
    IF nodes = <<>> THEN 0 ELSE Len(Head(nodes).DATA) + TotalData(Tail(nodes))

\* C19: for the LookupTypes kind parseCompactMetadata returns one result per
\* input node, in input order; for any other kind it returns one result
\* holding the records of all input nodes.
C19_ListOrMerged ==
    \A i \in DOMAIN calls :
        calls[i].op = "parseCompactMetadata" =>
            LET nodes == calls[i].args[1]
                r == calls[i].result
            IN  IF calls[i].args[2] = Str("LookupTypes")
                THEN /\ r.t = "array"
                     /\ Len(r.items) = Len(nodes)
                     /\ \A k \in DOMAIN nodes :
                           /\ r.items[k].attrs = nodes[k].attrs
                           /\ Len(r.items[k].list) = Len(nodes[k].DATA)
                ELSE nodes # <<>> =>
                        /\ r.t = "metaObj"
                        /\ Len(r.list) = TotalData(nodes)

\* C20: a record set written as a compact block with a chosen delimiter
\* (given as its two-digit hexadecimal code, the delimiter before, between
\* and after the fields of each line) decodes to the column-to-value mapping
\* of every row, empty values included.
C20_RoundTrip ==
    \A i \in DOMAIN calls :
        calls[i].op = "roundTrip" =>
            LET n == calls[i].args[1]
                rows == calls[i].args[2]
                r == calls[i].result
            IN  /\ r.t = "metaObj"
                /\ Len(r.list) = Len(rows)
                /\ \A k \in DOMAIN rows :
                      /\ DOMAIN r.list[k] = {Spell(ColumnNames(n)[j]) : j \in 1..n}
                      /\ \A j \in 1..n :
                            r.list[k][Spell(ColumnNames(n)[j])] = Str(Spell(rows[k][j]))

\* a set of two records with an empty and a non-empty value each has gone
\* round with a comma as delimiter
C20_Witness ==
    \E i \in DOMAIN calls :
        /\ calls[i].op = "roundTrip"
        /\ calls[i].args = <<2, <<<<<<>>, <<"x">>>>, <<<<"x">>, <<>>>>>>, "2C">>
        /\ Len(calls[i].result.list) = 2

\* a getPhotos call whose object stream ended without a transport error
PhotosReceived(c) == /\ c.op = "getPhotos"
                     /\ c.resp.t = "stream"
                     /\ ~c.resp.error

\* no boundary can be taken from the content type: none was received, or it
\* holds no boundary= followed by a value
NoBoundary(contentType) ==
    \/ contentType.t # "header"
    \/ ~matcher(contentType.tokens, 1).matched

\* C21: whenever no multipart boundary can be taken from the Content-Type of
\* the object response (no boundary= parameter, or no Content-Type at all),
\* getPhotos reports the bad content type through its callback and the
\* multipart collaborator is not called for that response.  Stated for the
\* calls handed a callback.
C21_MalformedContentType ==
    \A i \in DOMAIN calls :
        (/\ PhotosReceived(calls[i])
         /\ calls[i].hasCb
         /\ NoBoundary(calls[i].resp.contentType)) =>
            /\ calls[i].multipart = NoMultipart
            /\ calls[i].pc = "done"
            /\ ~calls[i].thrown
            /\ Len(calls[i].cbs) = 1
            /\ calls[i].cbs[1].err = ErrBadContentType

\* the lines of a body with one envelope line right after every empty line
RECURSIVE WithEnvelopes(_)
WithEnvelopes(lines) ==
    IF lines = <<>> THEN <<>>
    ELSE <<Head(lines)>> \o (IF Head(lines) = "" THEN <<Envelope>> ELSE <<>>)
             \o WithEnvelopes(Tail(lines))

\* C29: for every body received by getPhotos, the loop over its lines (the
\* body split on CRLF) ends; the lines it leaves are the original lines in
\* their order with exactly one envelope line right after every empty one;
\* and the buffer handed to the multipart collaborator is these lines joined
\* with CRLF.
C29_BodyNormalization ==
    \A i \in DOMAIN calls :
        PhotosReceived(calls[i]) =>
            LET original == Split(calls[i].resp.content, CRLF)
            IN  /\ calls[i].pc # "hung"
                /\ calls[i].lines = WithEnvelopes(original)
                /\ calls[i].multipart.t = "multipart" =>
                      calls[i].multipart.data = JoinWith(WithEnvelopes(original), CRLF)

\* a body of a line of text and three empty lines went to the
\* multipart collaborator with an envelope line after each of them
C29_Witness ==
    \E i \in DOMAIN calls :
        /\ PhotosReceived(calls[i])
        /\ calls[i].resp.content = <<"a", CRLF, CRLF, CRLF>>
        /\ calls[i].lines = <<"a", "", Envelope, "", Envelope, "", Envelope>>
        /\ calls[i].multipart.t = "multipart"

\* C22: the request of an Update call carries delegate headers only when
\* delegateId, delegateHash and delegatePassword were all given, and it
\* carries X-Delegate-ID and X-Delegate-Authorization together or neither.
\* Stated for the update module called with the arguments it declares.
C22_DelegateHeadersTogether ==
    \A i \in DOMAIN calls :
        (/\ calls[i].op = "update"
         /\ calls[i].level = "module"
         /\ calls[i].req.t = "request") =>
            LET h == calls[i].req.headers
            IN  /\ (HasHeader(h, "X-Delegate-ID") \/ HasHeader(h, "X-Delegate-Authorization"))
                      => HasDelegate(AuthOf(calls[i]))
                /\ HasHeader(h, "X-Delegate-ID") <=> HasHeader(h, "X-Delegate-Authorization")

\* C23: a header set built from settings whose userAgentPassword is not set
\* (absent or empty) holds no RETS-UA-Authorization header, be it the set
\* login builds for the session or the per-call set update builds.
C23_NoUaAuthWithoutPassword ==
    \A i \in DOMAIN calls :
        (/\ calls[i].op \in {"login.headers", "update.delegateHeaders"}
         /\ ~Truthy(Get(calls[i].args[1], "userAgentPassword"))) =>
            ~HasHeader(calls[i].result, "RETS-UA-Authorization")

\* login built the headers for settings with a user agent and no password:
\* the user agent is taken over, and no RETS-UA-Authorization is attached
C23_Witness ==
    \E i \in DOMAIN calls :
        /\ calls[i].op = "login.headers"
        /\ Get(calls[i].args[1], "userAgent") = Str("UA")
        /\ ~Truthy(Get(calls[i].args[1], "userAgentPassword"))
        /\ calls[i].result["User-Agent"] = Plain("UA")
        /\ ~HasHeader(calls[i].result, "RETS-UA-Authorization")

\* the n-th operation is Client.update, invoked with a callback on the
\* configured Client, and its request is in flight
AwaitingOutcome(n) ==
    /\ ncalls = n
    /\ client.configured
    /\ \E i \in DOMAIN calls :
          /\ calls[i].op = "update"
          /\ calls[i].level = "client"
          /\ calls[i].hasCb
          /\ calls[i].pc = "inflight"

\* the n-th operation has handed its outcome to the callback and emitted its
\* success or failure event
OutcomeDelivered(n) ==
    /\ ncalls = n
    /\ \E i \in DOMAIN calls :
          /\ calls[i].pc = "done"
          /\ calls[i].cbs # <<>>
          /\ calls[i].events # <<>>

\* C24: an operation invoked with a callback on a configured Client, its
\* request being completed by the transport, eventually hands its outcome to
\* the callback and emits its success or failure event.  Stated for the
\* operation the claim singles out:
\* Client.update(resourceType, classType, fields, auth, callback), with
\* either variant of the update module.
C24_EventuallyDelivered ==
    \A n \in 1..MaxCalls : AwaitingOutcome(n) ~> OutcomeDelivered(n)

\* C25: in an input of several nodes, each node is decoded with its own
\* delimiter (its DELIMITER child, hex-decoded, when it has one, TAB
\* otherwise), whatever the nodes before it declared: each node's result is
\* the one the node gives with its own delimiter.
C25_DelimiterPerNode ==
    \A i \in DOMAIN calls :
        (calls[i].op = "parseCompactMetadata" /\ calls[i].args[1] # <<>>) =>
            LET nodes == calls[i].args[1]
                r == calls[i].result
                key == IF Truthy(calls[i].args[2]) THEN calls[i].args[2].v ELSE "Data"
                own(k) == metaObj(nodes[k], DelimiterOf(nodes[k]), key)
            IN  IF calls[i].args[2] = Str("LookupTypes")
                THEN \A k \in DOMAIN nodes : r.items[k] = own(k)
                ELSE r = own(Len(nodes))

\* the places of a line at which the delimiter d stands
DelimiterPlaces(line, d) == {j \in DOMAIN line : line[j] = d}

\* the place of the p-th delimiter of a line
NthPlace(line, d, p) ==
    CHOOSE j \in DelimiterPlaces(line, d) :
        Cardinality({k \in DelimiterPlaces(line, d) : k <= j}) = p

\* what stands at position p >= 1 of a line split on d: the text after the
\* p-th delimiter, up to the next delimiter or to the end of the line, and
\* nothing when the line has fewer than p delimiters
Position(line, d, p) ==
    LET n == Cardinality(DelimiterPlaces(line, d))
    IN  IF n < p THEN UNDEF
        ELSE LET from == NthPlace(line, d, p) + 1
                 to == IF n > p THEN NthPlace(line, d, p + 1) - 1 ELSE Len(line)
             IN  Str(Spell(SubSeq(line, from, to)))

\* an Update reply of part_000 that reaches parseErrorWarningBlock and whose
\* blocks, when present, hold a line at least
ReportsParsed(c) ==
    /\ impl = "part_000"
    /\ c.level = "module"
    /\ c.hasCb
    /\ Decodable(c)
    /\ ReplyOf(c).ReplyCode = 0
    /\ ReplyOf(c).tidTag = "TRANSACTIONID"
    /\ ReplyOf(c).tidForm = "attr"
    /\ WellFormedBlocks(ReplyOf(c))

LoginAnswered(c) == c.op = "login" /\ c.pc = "done"

\* the login exchange succeeded: status 200 and a body with a RETS-RESPONSE
LoginSucceeded(c) ==
    /\ LoginAnswered(c)
    /\ ~c.resp.error
    /\ c.resp.status = 200
    /\ c.resp.body.t = "result"
    /\ c.resp.body.response

\* the login reply names the key, with a value
Named(c, key) ==
    \E k \in DOMAIN c.resp.body.keyVals :
        /\ Len(c.resp.body.keyVals[k]) > 2
        /\ c.resp.body.keyVals[k][1] = key
        /\ c.resp.body.keyVals[k][2] = "="

\* the URL the login reply gives for a key it names
UrlOf(c, key) ==
    LET k == CHOOSE k \in DOMAIN c.resp.body.keyVals : c.resp.body.keyVals[k][1] = key
    IN  Spell(SubSeq(c.resp.body.keyVals[k], 3, Len(c.resp.body.keyVals[k])))

\* the session bound for a capability
BoundFor(capability) ==
    CASE capability = "GetMetadata" -> sess.metadata
      [] capability = "Search" -> sess.search
      [] capability = "GetObject" -> sess.object
      [] capability = "Update" -> sess.update
      [] capability = "Logout" -> client.logoutRequest

\* C26: after a successful login, configure has not failed, and a session
\* is bound for exactly the capabilities the login reply names (GetMetadata,
\* Search, GetObject, Update, Logout): each is bound to its capability URL
\* resolved against the login URL, with the cookie store and the headers of
\* the root session; for a capability the reply does not name no session is
\* bound.
C26_SessionDerivation ==
    \A i \in DOMAIN calls :
        LoginSucceeded(calls[i]) =>
            LET root == RootSession(calls[i].args[1])
            IN  /\ ~calls[i].thrown
                /\ client.configured
                /\ \A capability \in Capabilities :
                      IF Named(calls[i], capability)
                      THEN /\ BoundFor(capability).t = "session"
                           /\ BoundFor(capability).uri =
                                  Resolve(root.uri, UrlOf(calls[i], capability))
                           /\ BoundFor(capability).jar = root.jar
                           /\ BoundFor(capability).headers = root.headers
                      ELSE BoundFor(capability).t # "session"

\* C27: a getClient call whose login request was answered has emitted
\* exactly one of connection.success and connection.failure on its Client;
\* connection.success comes with the modules bound by configure; and when
\* the exchange failed (transport error, status other than 200, or a body
\* without RETS-RESPONSE) the event is connection.failure and nothing was
\* bound on the Client.
C27_ConnectionEvents ==
    \A i \in DOMAIN calls :
        LoginAnswered(calls[i]) =>
            /\ Len(client.events) = 1
            /\ client.events[1].name \in {"connection.success", "connection.failure"}
            /\ client.events[1].name = "connection.success" =>
                  /\ client.configured
                  /\ client.metadataModule /\ client.searchModule /\ client.objectModule
                  /\ client.logoutRequest.t = "session"
            /\ ~LoginSucceeded(calls[i]) =>
                  /\ client.events[1].name = "connection.failure"
                  /\ [client EXCEPT !.events = <<>>] = NewClient
                  /\ sess = NoSessions

====
